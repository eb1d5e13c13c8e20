------------------------ MODULE KernelVectorizerProofs ------------------------
(***************************************************************************)
(* The walk over a kernel, for straight-line kernels of any length with at  *)
(* most one branch: what is erased, and in which order, how many elements   *)
(* the vectors have, which kernels are vectorized, and that the clone       *)
(* computes what the kernel did.                                            *)
(***************************************************************************)
EXTENDS KernelVectorizer, FiniteSetTheorems, SequenceTheorems, TLAPS

(* Recursion without the library's operators-as-parameters: the least of a  *)
(* set of numbers, induction, and the functions recursion defines.          *)
LEMMA SmallestSet ==
  ASSUME NEW S, IsFiniteSet(S), NEW T, T \subseteq SUBSET S, T # {}
  PROVE  \E s \in T : \A t \in T : t \subseteq s => t = s
<1> DEFINE R == StrictSubsetOrdering(S)
           W == SUBSET S
<1>1. IsWellFoundedOn(R, W) /\ T \subseteq W
  BY FS_StrictSubsetOrderingWellFounded, FS_FiniteSubsetsOfFinite
<1> HIDE DEF R, W
<1>2. \E s \in T : \A t \in T : ~ (<<t, s>> \in R)
  BY <1>1, WFMin
<1> QED BY <1>2 DEF StrictSubsetOrdering, R

LEMMA SmallestNumber ==
  ASSUME NEW B, B \subseteq Nat, B # {}
  PROVE  \E k \in B : \A m \in B : k <= m
<1>1. PICK b \in B : TRUE
  OBVIOUS
<1> DEFINE T == {0..k : k \in {m \in B : m <= b}}
<1>2. IsFiniteSet(0..b)
  BY <1>1, FS_Interval
<1>a. T \subseteq SUBSET (0..b) /\ T # {}
  <2>1. 0..b \in T
    BY <1>1
  <2> QED BY <1>1, <2>1
<1> HIDE DEF T
<1>3. PICK s \in T : \A t \in T : t \subseteq s => t = s
  <2> DEFINE N == 0..b
  <2>1. IsFiniteSet(N) /\ T \subseteq SUBSET N /\ T # {}
    BY <1>2, <1>a
  <2> HIDE DEF N
  <2>2. \E s \in T : \A t \in T : t \subseteq s => t = s
    BY <2>1, SmallestSet
  <2> QED BY <2>2
<1>4. PICK k \in B : k <= b /\ s = 0..k
  BY <1>3 DEF T
<1>5. ASSUME NEW m \in B, m < k PROVE FALSE
  <2>1. 0..m \in T /\ 0..m \subseteq s /\ k \notin 0..m /\ k \in s
    BY <1>1, <1>4, <1>5 DEF T
  <2> QED BY <1>3, <2>1
<1> QED BY <1>4, <1>5

(* Induction up to n, and down from n to 1.                                 *)
LEMMA Upwards ==
  ASSUME NEW n \in Nat, NEW S, 0 \in S, \A k \in 0..(n - 1) : k \in S => k + 1 \in S
  PROVE  0..n \subseteq S
<1> DEFINE B == {k \in 0..n : k \notin S}
<1> SUFFICES ASSUME B # {} PROVE FALSE
  OBVIOUS
<1>1. PICK k \in B : \A m \in B : k <= m
  <2>1. B \subseteq Nat
    OBVIOUS
  <2> HIDE DEF B
  <2> QED BY <2>1, SmallestNumber
<1>2. k # 0 /\ k - 1 \in 0..(n - 1) /\ k - 1 \notin B
  BY <1>1
<1> QED BY <1>1, <1>2

LEMMA Below ==
  ASSUME NEW n \in Nat, NEW S, \A v \in 1..n : 1..(v - 1) \subseteq S => v \in S
  PROVE  1..n \subseteq S
<1> DEFINE B == {v \in 1..n : v \notin S}
<1> SUFFICES ASSUME B # {} PROVE FALSE
  OBVIOUS
<1>1. PICK v \in B : \A m \in B : v <= m
  <2>1. B \subseteq Nat
    OBVIOUS
  <2> HIDE DEF B
  <2> QED BY <2>1, SmallestNumber
<1>2. 1..(v - 1) \subseteq S
  BY <1>1
<1> QED BY <1>1, <1>2

LEMMA Above ==
  ASSUME NEW n \in Nat, NEW S, \A v \in 1..n : (v + 1)..n \subseteq S => v \in S
  PROVE  1..n \subseteq S
<1> DEFINE B == {k \in 0..(n - 1) : n - k \notin S}
<1> SUFFICES ASSUME B # {} PROVE FALSE
  <2>1. \A v \in 1..n : n - v \in 0..(n - 1) /\ n - (n - v) = v
    OBVIOUS
  <2> QED BY <2>1
<1>1. PICK k \in B : \A m \in B : k <= m
  <2>1. B \subseteq Nat
    OBVIOUS
  <2> HIDE DEF B
  <2> QED BY <2>1, SmallestNumber
<1>2. ASSUME NEW v \in (n - k + 1)..n PROVE v \in S
  <2>1. n - v \in 0..(n - 1) /\ n - v < k /\ n - (n - v) = v
    BY <1>1
  <2> QED BY <1>1, <2>1
<1>3. n - k \in 1..n
  BY <1>1
<1> QED BY <1>1, <1>2, <1>3

-----------------------------------------------------------------------------
IsScheme(n, R, G) == n \in Nat /\ G \in [1..n -> [[1..n -> R] -> R]]

LooksBelow(n, R, G) ==
  \A v \in 1..n : \A f, g \in [1..n -> R] :
    (\A w \in 1..(v - 1) : f[w] = g[w]) => G[v][f] = G[v][g]

LooksAbove(n, R, G) ==
  \A v \in 1..n : \A f, g \in [1..n -> R] :
    (\A w \in (v + 1)..n : f[w] = g[w]) => G[v][f] = G[v][g]

Solves(n, R, G, f) == f \in [1..n -> R] /\ \A v \in 1..n : f[v] = G[v][f]

(* A function on 1..n whose value at v is computed from its values at the   *)
(* places before v exists.                                                  *)
LEMMA RecursiveFromBelow ==
  ASSUME NEW n, NEW R, NEW a \in R, NEW G, IsScheme(n, R, G), LooksBelow(n, R, G)
  PROVE  \E f : Solves(n, R, G, f)
<1>n. n \in Nat /\ G \in [1..n -> [[1..n -> R] -> R]]
  BY DEF IsScheme
<1> DEFINE S == {k \in 0..n : \E f \in [1..n -> R] : \A v \in 1..k : f[v] = G[v][f]}
<1>1. 0 \in S
  <2> DEFINE f == [v \in 1..n |-> a]
  <2>1. f \in [1..n -> R]
    OBVIOUS
  <2> HIDE DEF f
  <2> QED BY <1>n, <2>1
<1>2. ASSUME NEW k \in 0..(n - 1), k \in S PROVE k + 1 \in S
  <2>1. PICK f \in [1..n -> R] : \A v \in 1..k : f[v] = G[v][f]
    BY <1>2
  <2> DEFINE g == [f EXCEPT ![k + 1] = G[k + 1][f]]
  <2>2. k + 1 \in 1..n /\ G[k + 1][f] \in R
    BY <1>n
  <2>3. /\ g \in [1..n -> R] /\ g[k + 1] = G[k + 1][f]
        /\ \A v \in 1..k : g[v] = f[v]
    BY <1>n, <2>2
  <2> HIDE DEF g
  <2>4. ASSUME NEW v \in 1..(k + 1) PROVE G[v][f] = G[v][g]
    <3>1. v \in 1..n /\ \A w \in 1..(v - 1) : f[w] = g[w]
      BY <1>n, <2>2, <2>3
    <3> QED BY <1>n, <2>3, <3>1 DEF LooksBelow
  <2>5. \A v \in 1..(k + 1) : g[v] = G[v][g]
    BY <1>n, <2>1, <2>3, <2>4
  <2> QED BY <1>n, <2>2, <2>3, <2>5
<1>3. n \in S
  <2> HIDE DEF S
  <2>1. \A k \in 0..(n - 1) : k \in S => k + 1 \in S
    BY <1>2
  <2>2. 0..n \subseteq S
    BY <1>n, <1>1, <2>1, Upwards
  <2> QED BY <1>n, <2>2
<1> QED BY <1>3 DEF Solves

LEMMA RecursiveFromAbove ==
  ASSUME NEW n, NEW R, NEW a \in R, NEW G, IsScheme(n, R, G), LooksAbove(n, R, G)
  PROVE  \E f : Solves(n, R, G, f)
<1>n. n \in Nat /\ G \in [1..n -> [[1..n -> R] -> R]]
  BY DEF IsScheme
<1> DEFINE S == {k \in 0..n : \E f \in [1..n -> R] : \A v \in (n - k + 1)..n : f[v] = G[v][f]}
<1>1. 0 \in S
  <2> DEFINE f == [v \in 1..n |-> a]
  <2>1. f \in [1..n -> R]
    OBVIOUS
  <2> HIDE DEF f
  <2> QED BY <1>n, <2>1
<1>2. ASSUME NEW k \in 0..(n - 1), k \in S PROVE k + 1 \in S
  <2>1. PICK f \in [1..n -> R] : \A v \in (n - k + 1)..n : f[v] = G[v][f]
    BY <1>2
  <2> DEFINE g == [f EXCEPT ![n - k] = G[n - k][f]]
  <2>2. n - k \in 1..n /\ G[n - k][f] \in R
    BY <1>n
  <2>3. /\ g \in [1..n -> R] /\ g[n - k] = G[n - k][f]
        /\ \A v \in (n - k + 1)..n : g[v] = f[v]
    BY <1>n, <2>2
  <2> HIDE DEF g
  <2>4. ASSUME NEW v \in (n - k)..n PROVE G[v][f] = G[v][g]
    <3>1. v \in 1..n /\ \A w \in (v + 1)..n : f[w] = g[w]
      BY <1>n, <2>2, <2>3
    <3> QED BY <1>n, <2>3, <3>1 DEF LooksAbove
  <2>5. \A v \in (n - k)..n : g[v] = G[v][g]
    <3>1. ASSUME NEW v \in (n - k)..n PROVE v = n - k \/ v \in (n - k + 1)..n
      BY <1>n
    <3> QED BY <2>1, <2>3, <2>4, <3>1
  <2>6. n - (k + 1) + 1 = n - k
    BY <1>n
  <2> QED BY <1>n, <2>2, <2>3, <2>5, <2>6
<1>3. n \in S
  <2> HIDE DEF S
  <2>1. \A k \in 0..(n - 1) : k \in S => k + 1 \in S
    BY <1>2
  <2>2. 0..n \subseteq S
    BY <1>n, <1>1, <2>1, Upwards
  <2> QED BY <1>n, <2>2
<1> QED BY <1>3 DEF Solves

IsStep(n, R, a, G) == a \in R /\ G \in [1..n -> [R -> R]]

Iterates(n, R, a, G, f) ==
  f \in [0..n -> R] /\ f[0] = a /\ \A i \in 1..n : f[i] = G[i][f[i - 1]]

(* A function on 0..n whose value at i is computed from the one at i - 1.   *)
LEMMA RecursiveFromLast ==
  ASSUME NEW n \in Nat, NEW R, NEW a, NEW G, IsStep(n, R, a, G)
  PROVE  \E f : Iterates(n, R, a, G, f)
<1>n. a \in R /\ G \in [1..n -> [R -> R]]
  BY DEF IsStep
<1> DEFINE S == {k \in 0..n : \E f \in [0..n -> R] :
                                f[0] = a /\ \A i \in 1..k : f[i] = G[i][f[i - 1]]}
<1>1. 0 \in S
  <2> DEFINE f == [v \in 0..n |-> a]
  <2>1. f \in [0..n -> R] /\ f[0] = a
    BY <1>n
  <2> HIDE DEF f
  <2> QED BY <2>1
<1>2. ASSUME NEW k \in 0..(n - 1), k \in S PROVE k + 1 \in S
  <2>1. PICK f \in [0..n -> R] : f[0] = a /\ \A i \in 1..k : f[i] = G[i][f[i - 1]]
    BY <1>2
  <2> DEFINE g == [f EXCEPT ![k + 1] = G[k + 1][f[k]]]
  <2>2. k + 1 \in 1..n /\ k \in 0..n /\ G[k + 1][f[k]] \in R
    BY <1>n
  <2>3. /\ g \in [0..n -> R] /\ g[k + 1] = G[k + 1][f[k]]
        /\ \A i \in 0..k : g[i] = f[i]
    BY <2>2
  <2> HIDE DEF g
  <2>4. \A i \in 1..(k + 1) : g[i] = G[i][g[i - 1]]
    <3>1. ASSUME NEW i \in 1..(k + 1) PROVE i - 1 \in 0..k /\ (i = k + 1 \/ i \in 1..k)
      OBVIOUS
    <3> QED BY <2>1, <2>3, <3>1
  <2> QED BY <2>1, <2>2, <2>3, <2>4
<1>3. n \in S
  <2> HIDE DEF S
  <2>1. \A k \in 0..(n - 1) : k \in S => k + 1 \in S
    BY <1>2
  <2>2. 0..n \subseteq S
    BY <1>1, <2>1, Upwards
  <2> QED BY <2>2
<1> QED BY <1>3 DEF Iterates
-----------------------------------------------------------------------------
(* The kernels the front end hands over: every operand, address and         *)
(* condition is an earlier value that is there whenever it is used.         *)
Opcodes == {"call", "arg", "load", "store", "FNeg", "cast"} \cup Binary

Instruction == [op : Opcodes, ty : Widths \cup {0}, opnds : Seq(Nat), arr : Arrays \cup {""},
                idx : Nat, block : Nat]

Usable(K, v, b) == K[v].ty # 0 /\ K[v].block \in {0, b}

Fits(K, v) ==
  /\ \A o \in DOMAIN K[v].opnds :
       K[v].opnds[o] \in 1..(v - 1) /\ Usable(K, K[v].opnds[o], K[v].block)
  /\ K[v].op \in {"call", "arg", "load"} => DOMAIN K[v].opnds = {}
  /\ K[v].op \in {"store", "FNeg", "cast"} => DOMAIN K[v].opnds = {1}
  /\ K[v].op \in Binary => DOMAIN K[v].opnds = {1, 2}
  /\ K[v].op \in {"load", "store"} =>
       K[v].arr \in Arrays /\ K[v].idx \in 1..(v - 1) /\ Usable(K, K[v].idx, K[v].block)
  /\ K[v].block # 0 => K[v].block \in 1..(v - 1) /\ K[K[v].block].block = 0
  /\ K[v].ty = 0 <=> K[v].op = "store"

WellFormed(K) == K \in Seq(Instruction) /\ \A v \in DOMAIN K : Fits(K, v)

LEMMA BinaryFacts ==
  /\ Binary \cap {"call", "arg", "load", "store", "FNeg", "cast"} = {}
  /\ Arithmetic \cap {"call", "arg", "load", "store", "FNeg", "cast"} = {}
<1>1. BinaryOps \cap {"call", "arg", "load", "store", "FNeg", "cast"} = {}
  BY DEF BinaryOps, Arithmetic
<1>2. Arithmetic \subseteq BinaryOps
  BY DEF BinaryOps
<1> QED BY <1>1, <1>2, BinaryAssumption

LEMMA KernelDomain ==
  ASSUME NEW K, WellFormed(K)
  PROVE  /\ Len(K) \in Nat /\ DOMAIN K = 1..Len(K)
         /\ \A v \in DOMAIN K : K[v] \in Instruction
BY DEF WellFormed

LEMMA FunctionIsSeq ==
  ASSUME NEW S, NEW n \in Nat, NEW f \in [1..n -> S]
  PROVE  f \in Seq(S) /\ Len(f) = n
<1>1. f \in Seq(S)
  BY SeqDef
<1> QED BY <1>1, LenProperties

LEMMA PrologueFits == WellFormed(Prologue)
<1> DEFINE Arg(p) == [Call EXCEPT !.op = "arg", !.ty = Params[p]]
           Args == [p \in DOMAIN Params |-> Arg(p)]
<1>1. Call \in Instruction /\ Call.op = "call" /\ Call.opnds = <<>> /\ Call.block = 0 /\ Call.ty # 0
  BY DEF Call, Instruction, Opcodes, Widths
<1>2. ASSUME NEW p \in DOMAIN Params
      PROVE  /\ Arg(p) \in Instruction /\ Arg(p).op = "arg" /\ Arg(p).opnds = <<>>
             /\ Arg(p).block = 0 /\ Arg(p).ty # 0
  <2>1. Params[p] \in Widths
    BY ParamsAssumption
  <2>2. "arg" \in Opcodes /\ Params[p] \in Widths \cup {0} /\ Params[p] # 0
    BY <2>1 DEF Opcodes, Widths
  <2> QED BY <1>1, <2>2 DEF Instruction
<1>3. Args \in Seq(Instruction) /\ Len(Args) = Len(Params)
  <2>1. Args \in [1..Len(Params) -> Instruction] /\ Len(Params) \in Nat
    <3>1. DOMAIN Params = 1..Len(Params) /\ Len(Params) \in Nat
      BY ParamsAssumption
    <3>2. \A p \in DOMAIN Params : Arg(p) \in Instruction
      BY <1>2
    <3> HIDE DEF Arg
    <3> QED BY <3>1, <3>2
  <2> DEFINE n == Len(Params)
  <2> HIDE DEF Args, n
  <2>2. Args \in [1..n -> Instruction] /\ n \in Nat
    BY <2>1 DEF n
  <2>3. Args \in Seq(Instruction) /\ Len(Args) = n
    BY <2>2, FunctionIsSeq
  <2> QED BY <2>3 DEF n
<1>4. /\ Prologue \in Seq(Instruction) /\ Prologue[1] = Call
      /\ DOMAIN Prologue = 1..(1 + Len(Params))
      /\ \A v \in DOMAIN Prologue \ {1} : v - 1 \in DOMAIN Params /\ Prologue[v] = Arg(v - 1)
  <2>1. <<Call>> \in Seq(Instruction) /\ Len(<<Call>>) = 1 /\ <<Call>>[1] = Call
    BY <1>1
  <2>2. Prologue = <<Call>> \o Args
    BY DEF Prologue
  <2>3. \A i \in 1..Len(Params) : Args[i] = Arg(i)
    <3> HIDE DEF Arg
    <3> QED BY ParamsAssumption
  <2> HIDE DEF Args, Arg
  <2>4. Len(Params) \in Nat /\ DOMAIN Params = 1..Len(Params)
    BY ParamsAssumption
  <2>5. /\ Prologue \in Seq(Instruction) /\ Len(Prologue) = 1 + Len(Params)
        /\ Prologue[1] = Call
        /\ \A i \in 2..(1 + Len(Params)) : Prologue[i] = Args[i - 1]
    BY <1>3, <2>1, <2>2, <2>4, ConcatProperties
  <2> QED BY <2>3, <2>4, <2>5
<1> HIDE DEF Arg, Args
<1>5. \A v \in DOMAIN Prologue : /\ Prologue[v].op \in {"call", "arg"} /\ Prologue[v].opnds = <<>>
                                 /\ Prologue[v].block = 0 /\ Prologue[v].ty # 0
  BY <1>1, <1>2, <1>4
<1> QED BY <1>4, <1>5, BinaryFacts DEF WellFormed, Fits

LEMMA AppendFits ==
  ASSUME NEW K, WellFormed(K), NEW I \in Instruction,
         \A o \in DOMAIN I.opnds : I.opnds[o] \in DOMAIN K /\ Usable(K, I.opnds[o], I.block),
         I.op \in {"call", "arg", "load"} => DOMAIN I.opnds = {},
         I.op \in {"store", "FNeg", "cast"} => DOMAIN I.opnds = {1},
         I.op \in Binary => DOMAIN I.opnds = {1, 2},
         I.op \in {"load", "store"} => I.arr \in Arrays /\ I.idx \in DOMAIN K /\ Usable(K, I.idx, I.block),
         I.block # 0 => I.block \in DOMAIN K /\ K[I.block].block = 0,
         I.ty = 0 <=> I.op = "store"
  PROVE  WellFormed(Append(K, I))
<1> DEFINE L == Append(K, I)
           n == Len(K)
<1>1. /\ L \in Seq(Instruction) /\ DOMAIN L = 1..(n + 1) /\ L[n + 1] = I
      /\ \A v \in 1..n : L[v] = K[v]
      /\ n \in Nat /\ DOMAIN K = 1..n
  BY KernelDomain DEF WellFormed
<1> HIDE DEF L, n
<1>2. ASSUME NEW v \in 1..n PROVE Fits(L, v)
  <2>1. Fits(K, v)
    BY <1>1 DEF WellFormed
  <2>2. L[v] = K[v] /\ \A w \in 1..(v - 1) : L[w] = K[w]
    BY <1>1
  <2> QED BY <2>1, <2>2 DEF Fits, Usable
<1>3. Fits(L, n + 1)
  <2>1. \A w \in 1..n : Usable(L, w, I.block) <=> Usable(K, w, I.block)
    BY <1>1 DEF Usable
  <2>2. (n + 1) - 1 = n
    BY <1>1
  <2> QED BY <1>1, <2>1, <2>2 DEF Fits
<1>4. \A v \in DOMAIN L : v \in 1..n \/ v = n + 1
  BY <1>1
<1> QED BY <1>1, <1>2, <1>3, <1>4 DEF WellFormed, L
-----------------------------------------------------------------------------
(* calcNumSVEElmnts, which terminates as it follows operands only.          *)
LEMMA NumType ==
  ASSUME NEW ty \in Widths \cup {0}
  PROVE  /\ NumSVEElmnts(ty) \in Nat
         /\ ty # 0 => NumSVEElmnts(ty) # 0
         /\ \A uy \in Widths : ty # 0 /\ NumSVEElmnts(ty) = NumSVEElmnts(uy) => ty = uy
<1>1. NumSVEElmnts(0) = 0
  BY DEF NumSVEElmnts
<1>2. \A t \in Widths : t # 0 /\ NumSVEElmnts(t) = 128 \div t
  BY DEF Widths, NumSVEElmnts, UnitBitWidth
<1>3. 128 \div 8 = 16 /\ 128 \div 16 = 8 /\ 128 \div 32 = 4 /\ 128 \div 64 = 2 /\ 128 \div 128 = 1
  OBVIOUS
<1> QED BY <1>1, <1>2, <1>3 DEF Widths

LEMMA NumOfType ==
  ASSUME NEW K, WellFormed(K), NEW v \in DOMAIN K, NEW f \in [DOMAIN K -> Nat]
  PROVE  NumOf(K, f, v) \in Nat
<1>1. NumSVEElmnts(K[v].ty) \in Nat /\ v \in 1..Len(K) /\ Len(K) \in Nat
  BY KernelDomain, NumType DEF Instruction
<1>2. \A o \in DOMAIN K[v].opnds : f[K[v].opnds[o]] \in Nat
  <2>1. \A o \in DOMAIN K[v].opnds : K[v].opnds[o] \in 1..(v - 1)
    BY DEF WellFormed, Fits
  <2> QED BY <1>1, <2>1, KernelDomain
<1>3. K[v].op = "store" => 1 \in DOMAIN K[v].opnds
  BY DEF WellFormed, Fits
<1> HIDE DEF NumSVEElmnts
<1> QED BY <1>1, <1>2, <1>3 DEF NumOf, IsUnaryOp, IsBinaryOp

LEMMA NumOfBelow ==
  ASSUME NEW K, WellFormed(K), NEW v \in DOMAIN K, NEW f, NEW g, \A w \in 1..(v - 1) : f[w] = g[w]
  PROVE  NumOf(K, f, v) = NumOf(K, g, v)
<1>1. \A o \in DOMAIN K[v].opnds : f[K[v].opnds[o]] = g[K[v].opnds[o]]
  BY DEF WellFormed, Fits
<1>2. K[v].op = "store" => 1 \in DOMAIN K[v].opnds
  BY DEF WellFormed, Fits
<1> QED BY <1>1, <1>2 DEF NumOf

LEMMA CalcNum ==
  ASSUME NEW K, WellFormed(K)
  PROVE  /\ CalcNumSVEElmnts(K) \in [DOMAIN K -> Nat]
         /\ \A v \in DOMAIN K : CalcNumSVEElmnts(K)[v] = NumOf(K, CalcNumSVEElmnts(K), v)
<1> DEFINE n == Len(K)
           G == [v \in 1..n |-> [f \in [1..n -> Nat] |-> NumOf(K, f, v)]]
           P(f) == f = [v \in DOMAIN K |-> NumOf(K, f, v)]
<1>1. n \in Nat /\ DOMAIN K = 1..n
  BY KernelDomain
<1>2. \A v \in 1..n : \A f \in [1..n -> Nat] : NumOf(K, f, v) \in Nat
  BY <1>1, NumOfType
<1>3. \A v \in 1..n : \A f, g \in [1..n -> Nat] :
        (\A w \in 1..(v - 1) : f[w] = g[w]) => NumOf(K, f, v) = NumOf(K, g, v)
  BY <1>1, NumOfBelow
<1>4. CalcNumSVEElmnts(K) = CHOOSE f : P(f)
  BY DEF CalcNumSVEElmnts
<1> HIDE DEF n
<1>5. \E f \in [1..n -> Nat] : \A v \in 1..n : f[v] = NumOf(K, f, v)
  <2>1. IsScheme(n, Nat, G)
    BY <1>1, <1>2 DEF IsScheme
  <2>2. \A v \in 1..n : \A f \in [1..n -> Nat] : G[v][f] = NumOf(K, f, v)
    OBVIOUS
  <2> HIDE DEF G
  <2>3. LooksBelow(n, Nat, G)
    <3> USE DEF LooksBelow
    <3> TAKE v \in 1..n
    <3> TAKE f, g \in [1..n -> Nat]
    <3> HAVE \A w \in 1..(v - 1) : f[w] = g[w]
    <3>1. NumOf(K, f, v) = NumOf(K, g, v)
      BY <1>3
    <3> QED BY <2>2, <3>1
  <2>4. PICK f : Solves(n, Nat, G, f)
    BY <2>1, <2>3, 0 \in Nat, RecursiveFromBelow
  <2> QED BY <2>2, <2>4 DEF Solves
<1>6. \E f : P(f)
  BY <1>1, <1>5
<1> HIDE DEF P
<1>7. P(CalcNumSVEElmnts(K))
  BY <1>4, <1>6
<1> DEFINE C == CalcNumSVEElmnts(K)
<1>8. C = [v \in 1..n |-> NumOf(K, C, v)]
  BY <1>1, <1>7 DEF P
<1>9. C \in [1..n -> Nat]
  <2> HIDE DEF C
  <2> DEFINE S == {v \in 1..n : C[v] \in Nat}
  <2>1. ASSUME NEW v \in 1..n, 1..(v - 1) \subseteq S PROVE v \in S
    <3> DEFINE f == [w \in 1..n |-> IF w < v THEN C[w] ELSE 0]
    <3>1. f \in [1..n -> Nat] /\ \A w \in 1..(v - 1) : C[w] = f[w]
      BY <1>1, <2>1
    <3> HIDE DEF f
    <3>2. NumOf(K, f, v) \in Nat /\ NumOf(K, C, v) = NumOf(K, f, v)
      BY <1>1, <1>2, <3>1, NumOfBelow
    <3> QED BY <1>8, <3>2
  <2>2. 1..n \subseteq S
    <3> HIDE DEF S
    <3> QED BY <1>1, <2>1, Below
  <2> QED BY <1>8, <2>2
<1> QED BY <1>1, <1>8, <1>9
-----------------------------------------------------------------------------
(* collectSeedValues: the stores, in their order.                           *)
Increasing(s) == \A p, q \in DOMAIN s : p < q => s[p] < s[q]

SeedsUpTo(K, i, s) ==
  s \in Seq(1..i) /\ Increasing(s) /\ \A v \in 1..i : K[v].op = "store" <=> v \in Range(s)

LEMMA AppendFacts ==
  ASSUME NEW S, NEW s \in Seq(S), NEW e \in S
  PROVE  /\ Append(s, e) \in Seq(S) /\ Len(s) \in Nat /\ DOMAIN s = 1..Len(s)
         /\ DOMAIN Append(s, e) = 1..(Len(s) + 1)
         /\ Append(s, e)[Len(s) + 1] = e
         /\ \A p \in 1..Len(s) : Append(s, e)[p] = s[p]
         /\ Range(Append(s, e)) = Range(s) \cup {e}
<1>1. /\ Append(s, e) \in Seq(S) /\ Len(s) \in Nat /\ DOMAIN s = 1..Len(s)
      /\ DOMAIN Append(s, e) = 1..(Len(s) + 1)
      /\ Append(s, e)[Len(s) + 1] = e
      /\ \A p \in 1..Len(s) : Append(s, e)[p] = s[p]
  OBVIOUS
<1> DEFINE t == Append(s, e)
           n == Len(s)
<1> HIDE DEF t, n
<1>2. /\ DOMAIN t = 1..(n + 1) /\ DOMAIN s = 1..n /\ n \in Nat /\ t[n + 1] = e
      /\ \A p \in 1..n : t[p] = s[p]
  BY <1>1 DEF t, n
<1>3. Range(t) = Range(s) \cup {e}
  <2>1. \A p \in 1..(n + 1) : p \in 1..n \/ p = n + 1
    BY <1>2
  <2>2. 1..n \subseteq 1..(n + 1) /\ n + 1 \in 1..(n + 1)
    BY <1>2
  <2> QED BY <1>2, <2>1, <2>2 DEF Range
<1> QED BY <1>1, <1>3 DEF t

LEMMA SeedsStep ==
  ASSUME NEW K, NEW n \in Nat, NEW i \in 1..n, NEW s, SeedsUpTo(K, i - 1, s)
  PROVE  SeedsUpTo(K, i, WithSeed(K, s, i))
<1>1. /\ s \in Seq(1..(i - 1)) /\ s \in Seq(1..i) /\ Increasing(s)
      /\ Range(s) \subseteq 1..(i - 1)
      /\ \A v \in 1..(i - 1) : K[v].op = "store" <=> v \in Range(s)
  <2>1. s \in Seq(1..(i - 1)) /\ 1..(i - 1) \subseteq 1..i
    BY DEF SeedsUpTo
  <2> QED BY <2>1, SeqMonotonic, RangeOfSeq DEF SeedsUpTo
<1>2. \A v \in 1..i : v \in 1..(i - 1) \/ v = i
  OBVIOUS
<1>3. CASE K[i].op # "store"
  <2>1. WithSeed(K, s, i) = s
    BY <1>3 DEF WithSeed
  <2> QED BY <1>1, <1>2, <1>3, <2>1 DEF SeedsUpTo
<1>4. CASE K[i].op = "store"
  <2> DEFINE t == Append(s, i)
             m == Len(s)
  <2>1. WithSeed(K, s, i) = t
    BY <1>4 DEF WithSeed
  <2>2. /\ t \in Seq(1..i) /\ m \in Nat /\ DOMAIN s = 1..m /\ DOMAIN t = 1..(m + 1)
        /\ t[m + 1] = i /\ \A p \in 1..m : t[p] = s[p] /\ s[p] \in 1..(i - 1)
        /\ Range(t) = Range(s) \cup {i}
    <3>1. i \in 1..i
      OBVIOUS
    <3>2. /\ t \in Seq(1..i) /\ m \in Nat /\ DOMAIN s = 1..m /\ DOMAIN t = 1..(m + 1)
          /\ t[m + 1] = i /\ \A p \in 1..m : t[p] = s[p]
          /\ Range(t) = Range(s) \cup {i}
      BY <1>1, <3>1, AppendFacts
    <3>3. \A p \in 1..m : s[p] \in 1..(i - 1)
      BY <1>1
    <3> QED BY <3>2, <3>3
  <2> HIDE DEF t, m
  <2>3. Increasing(t)
    <3>1. ASSUME NEW p \in 1..(m + 1), NEW q \in 1..(m + 1), p < q
          PROVE  t[p] < t[q]
      <4>1. p \in 1..m
        BY <2>2, <3>1
      <4>2. CASE q = m + 1
        BY <2>2, <4>1, <4>2
      <4>3. CASE q # m + 1
        <5>1. q \in 1..m
          BY <2>2, <4>3
        <5> QED BY <1>1, <2>2, <3>1, <4>1, <5>1 DEF Increasing
      <4> QED BY <4>2, <4>3
    <3> QED BY <2>2, <3>1 DEF Increasing
  <2>4. \A v \in 1..i : K[v].op = "store" <=> v \in Range(t)
    BY <1>1, <1>2, <1>4, <2>2
  <2> QED BY <2>1, <2>2, <2>3, <2>4 DEF SeedsUpTo
<1> QED BY <1>3, <1>4

LEMMA SeedsFacts ==
  ASSUME NEW K, WellFormed(K)
  PROVE  /\ Seeds(K) \in Seq(DOMAIN K) /\ Increasing(Seeds(K))
         /\ Range(Seeds(K)) = {v \in DOMAIN K : K[v].op = "store"}
<1> DEFINE n == Len(K)
           P(f) == f = [i \in 0..n |-> IF i = 0 THEN <<>> ELSE WithSeed(K, f[i - 1], i)]
           C == CHOOSE f : P(f)
           G == [i \in 1..n |-> [s \in Seq(Nat) |-> WithSeed(K, s, i)]]
<1>1. n \in Nat /\ DOMAIN K = 1..n
  BY KernelDomain
<1>2. Seeds(K) = C[n]
  BY DEF Seeds
<1> HIDE DEF n
<1>3. \E f : P(f)
  <2>1. IsStep(n, Seq(Nat), <<>>, G)
    <3>1. ASSUME NEW i \in 1..n, NEW s \in Seq(Nat) PROVE WithSeed(K, s, i) \in Seq(Nat)
      <4>1. i \in Nat
        BY <1>1
      <4>2. Append(s, i) \in Seq(Nat)
        BY <4>1
      <4> QED BY <4>2 DEF WithSeed
    <3> QED BY <3>1 DEF IsStep
  <2>2. PICK f : Iterates(n, Seq(Nat), <<>>, G, f)
    <3> HIDE DEF G
    <3> QED BY <1>1, <2>1, RecursiveFromLast
  <2>3. \A i \in 1..n : f[i] = WithSeed(K, f[i - 1], i)
    <3>1. \A i \in 1..n : i - 1 \in 0..n
      BY <1>1
    <3> QED BY <2>2, <3>1 DEF Iterates
  <2>4. f = [i \in 0..n |-> f[i]] /\ f[0] = <<>>
    BY <2>2 DEF Iterates
  <2>5. \A i \in 0..n : i # 0 => i \in 1..n
    BY <1>1
  <2> QED BY <2>3, <2>4, <2>5
<1> HIDE DEF P
<1>4. P(C)
  BY <1>3
<1> HIDE DEF C
<1>5. C[0] = <<>> /\ \A i \in 1..n : C[i] = WithSeed(K, C[i - 1], i)
  BY <1>1, <1>4 DEF P
<1> DEFINE S == {i \in 0..n : SeedsUpTo(K, i, C[i])}
<1>6. 0 \in S
  <2>1. <<>> \in Seq(1..0) /\ Range(<<>>) = {} /\ Increasing(<<>>)
    BY DEF Range, Increasing
  <2>2. SeedsUpTo(K, 0, <<>>)
    BY <2>1 DEF SeedsUpTo
  <2> QED BY <1>1, <1>5, <2>2
<1>7. ASSUME NEW i \in 0..(n - 1), i \in S PROVE i + 1 \in S
  <2>1. i + 1 \in 1..n /\ (i + 1) - 1 = i
    BY <1>1
  <2>2. SeedsUpTo(K, i + 1, WithSeed(K, C[i], i + 1))
    BY <1>1, <1>7, <2>1, SeedsStep
  <2> QED BY <1>5, <2>1, <2>2
<1>8. n \in S
  <2> HIDE DEF S
  <2>1. \A i \in 0..(n - 1) : i \in S => i + 1 \in S
    BY <1>7
  <2>2. 0..n \subseteq S
    BY <1>1, <1>6, <2>1, Upwards
  <2> QED BY <1>1, <2>2
<1>9. SeedsUpTo(K, n, Seeds(K))
  BY <1>2, <1>8
<1>10. Range(Seeds(K)) \subseteq 1..n
  BY <1>9, RangeOfSeq DEF SeedsUpTo
<1> QED BY <1>1, <1>9, <1>10 DEF SeedsUpTo
-----------------------------------------------------------------------------
(* The values the stored ones are computed from.                            *)
LEMMA FeedsAbove ==
  ASSUME NEW K, NEW v \in Int, NEW f, NEW g, \A u \in (v + 1)..Len(K) : f[u] = g[u]
  PROVE  Feeds(K, f, v) = Feeds(K, g, v)
BY DEF Feeds

LEMMA StoredFacts ==
  ASSUME NEW K, WellFormed(K)
  PROVE  /\ Stored(K) \subseteq DOMAIN K
         /\ \A v \in DOMAIN K : v \in Stored(K) <=>
              \E u \in (v + 1)..Len(K) :
                v \in Range(K[u].opnds) /\ (K[u].op = "store" \/ u \in Stored(K))
<1> DEFINE n == Len(K)
           G == [v \in 1..n |-> [f \in [1..n -> BOOLEAN] |-> Feeds(K, f, v)]]
           P(f) == f = [v \in DOMAIN K |-> Feeds(K, f, v)]
           C == CHOOSE f : P(f)
<1>1. n \in Nat /\ DOMAIN K = 1..n
  BY KernelDomain
<1>2. Stored(K) = {v \in DOMAIN K : C[v]}
  BY DEF Stored
<1> HIDE DEF n
<1>3. \E f : P(f)
  <2>1. IsScheme(n, BOOLEAN, G)
    BY <1>1 DEF IsScheme, Feeds
  <2>2. \A v \in 1..n : \A f \in [1..n -> BOOLEAN] : G[v][f] = Feeds(K, f, v)
    OBVIOUS
  <2> HIDE DEF G
  <2>3. LooksAbove(n, BOOLEAN, G)
    <3> USE DEF LooksAbove
    <3> TAKE v \in 1..n
    <3> TAKE f, g \in [1..n -> BOOLEAN]
    <3> HAVE \A w \in (v + 1)..n : f[w] = g[w]
    <3>1. Feeds(K, f, v) = Feeds(K, g, v)
      BY <1>1, FeedsAbove DEF n
    <3> QED BY <2>2, <3>1
  <2>4. PICK f : Solves(n, BOOLEAN, G, f)
    BY <2>1, <2>3, RecursiveFromAbove
  <2>5. f = [v \in 1..n |-> Feeds(K, f, v)]
    BY <2>2, <2>4 DEF Solves
  <2> QED BY <1>1, <2>5
<1> HIDE DEF P
<1>4. P(C)
  BY <1>3
<1> HIDE DEF C
<1>5. \A v \in DOMAIN K : C[v] = Feeds(K, C, v)
  BY <1>4 DEF P
<1>6. \A v \in DOMAIN K : v \in Stored(K) <=> C[v]
  BY <1>2
<1>7. \A v \in DOMAIN K : \A u \in (v + 1)..Len(K) : u \in DOMAIN K
  BY <1>1 DEF n
<1> QED BY <1>2, <1>5, <1>6, <1>7 DEF Feeds

LEMMA StoredOperands ==
  ASSUME NEW K, WellFormed(K), NEW u \in DOMAIN K, K[u].op = "store" \/ u \in Stored(K),
         NEW o \in DOMAIN K[u].opnds
  PROVE  K[u].opnds[o] \in Stored(K)
<1>1. K[u].opnds[o] \in 1..(u - 1) /\ Len(K) \in Nat /\ DOMAIN K = 1..Len(K)
  BY KernelDomain DEF WellFormed, Fits
<1>2. u \in (K[u].opnds[o] + 1)..Len(K) /\ K[u].opnds[o] \in DOMAIN K
  BY <1>1
<1>3. K[u].opnds[o] \in Range(K[u].opnds)
  BY DEF Range
<1> QED BY <1>2, <1>3, StoredFacts

LEMMA StoredTypes ==
  ASSUME NEW K, WellFormed(K), NEW v \in Stored(K)
  PROVE  v \in DOMAIN K /\ K[v].ty # 0 /\ K[v].op # "store" /\ K[v].ty \in Widths
<1>1. v \in DOMAIN K
  BY StoredFacts
<1>2. PICK u \in (v + 1)..Len(K) : v \in Range(K[u].opnds)
  BY <1>1, StoredFacts
<1>3. u \in DOMAIN K
  BY <1>1, <1>2, KernelDomain
<1>4. K[v].ty # 0
  BY <1>2, <1>3 DEF Range, WellFormed, Fits, Usable
<1>5. K[v].op # "store" /\ K[v] \in Instruction
  BY <1>1, <1>4, KernelDomain DEF WellFormed, Fits
<1> QED BY <1>1, <1>4, <1>5 DEF Instruction

LEMMA ImageFinite ==
  ASSUME NEW S, IsFiniteSet(S), NEW f
  PROVE  IsFiniteSet({f[x] : x \in S})
<1> DEFINE T == {f[x] : x \in S}
           g == [x \in S |-> f[x]]
<1>1. g \in Surjection(S, T)
  BY DEF Surjection
<1> HIDE DEF g, T
<1>2. IsFiniteSet(T)
  BY <1>1, FS_Surjection
<1> QED BY <1>2 DEF T

(* The number of elements the seeds agree on.                               *)
LEMMA CommonFacts ==
  ASSUME NEW K, WellFormed(K)
  PROVE  /\ CommonElmnts(K) \in Nat
         /\ CommonElmnts(K) # 0 =>
              /\ Range(Seeds(K)) # {}
              /\ \A s \in Range(Seeds(K)) : CalcNumSVEElmnts(K)[s] = CommonElmnts(K)
         /\ \A n : /\ Range(Seeds(K)) # {}
                   /\ \A s \in Range(Seeds(K)) : CalcNumSVEElmnts(K)[s] = n
                   => CommonElmnts(K) = n
<1> DEFINE C == CalcNumSVEElmnts(K)
           T == Range(Seeds(K))
           nums == {C[s] : s \in T}
<1>1. C \in [DOMAIN K -> Nat] /\ T \subseteq DOMAIN K
  BY CalcNum, SeedsFacts
<1>2. IsFiniteSet(T)
  BY <1>1, KernelDomain, FS_Interval, FS_Subset
<1>3. IsFiniteSet(nums)
  <2> HIDE DEF C, T
  <2> QED BY <1>2, ImageFinite
<1>4. CommonElmnts(K) = IF Cardinality(nums) = 1 THEN CHOOSE n \in nums : TRUE ELSE 0
  BY DEF CommonElmnts
<1>5. Cardinality(nums) = 1 <=> \E x : nums = {x}
  <2> HIDE DEF nums
  <2> QED BY <1>3, FS_Singleton
<1>6. \A x : nums = {x} => (CHOOSE n \in nums : TRUE) = x
  OBVIOUS
<1>7. \A x : nums = {x} => T # {} /\ \A s \in T : C[s] = x
  OBVIOUS
<1>8. \A x : T # {} /\ (\A s \in T : C[s] = x) => nums = {x}
  OBVIOUS
<1>9. nums \subseteq Nat
  BY <1>1
<1> HIDE DEF C, T, nums
<1>10. CommonElmnts(K) \in Nat
  <2>1. CASE \E x : nums = {x}
    <3>1. PICK x : nums = {x}
      BY <2>1
    <3>2. CommonElmnts(K) = x
      BY <1>4, <1>5, <1>6, <3>1
    <3> QED BY <1>9, <3>1, <3>2
  <2>2. CASE ~ \E x : nums = {x}
    BY <1>4, <1>5, <2>2
  <2> QED BY <2>1, <2>2
<1> QED BY <1>4, <1>5, <1>6, <1>7, <1>8, <1>10 DEF C, T
-----------------------------------------------------------------------------
(* The walk.  Everything it enters or meets has the common number of        *)
(* elements, what was entered has its operands entered, and what is on the  *)
(* list of the instructions to erase was done once, operands first.         *)
Entries == DOMAIN VecValueMap \ {Mask}

KernelType ==
  /\ WellFormed(F)
  /\ block \in {0} \cup DOMAIN F
  /\ block # 0 => Usable(F, block, 0)
  /\ vectorized \in Nat \cup {Pending, Walking}

MapInv ==
  /\ CommonElmnts(F) # 0
  /\ DOMAIN VecValueMap \subseteq {Mask} \cup DOMAIN F /\ Mask \in DOMAIN VecValueMap
  /\ \A v \in DOMAIN VecValueMap : VecValueMap[v] = CommonElmnts(F)
  /\ \A v \in Entries :
       /\ F[v].op \in {"arg", "load"} \cup Arithmetic
       /\ NumSVEElmnts(F[v].ty) = CommonElmnts(F)
       /\ Range(F[v].opnds) \subseteq Entries
       /\ F[v].op # "arg" => v \in Erased

EraseInv ==
  /\ EraseInstrs \in Seq(DOMAIN F) /\ IsInjective(EraseInstrs)
  /\ \A v \in Erased : /\ F[v].op # "store" => v \in Entries /\ F[v].op # "arg"
                       /\ Range(F[v].opnds) \subseteq Entries

OperandsFirst ==
  \A p, q \in DOMAIN EraseInstrs : EraseInstrs[p] \in Range(F[EraseInstrs[q]].opnds) => p < q

CallInv ==
  /\ calls \in Seq(DOMAIN F) /\ Increasing(calls)
  /\ \A v \in Range(calls) : /\ v \notin Entries /\ v \notin Erased
                             /\ CalcNumSVEElmnts(F)[v] = CommonElmnts(F)
                             /\ F[v].op = "store" \/ v \in Stored(F)
  /\ \A v \in DOMAIN F : F[v].op = "store" => v \in Range(calls) \cup Erased

Walk == MapInv /\ EraseInv /\ OperandsFirst /\ CallInv

Done ==
  /\ MapInv /\ EraseInv /\ ErasedAfterUsers
  /\ \A v \in DOMAIN F : F[v].op = "store" => v \in Erased
  /\ vectorized = CommonElmnts(F)

VecInv ==
  /\ KernelType
  /\ vectorized = Walking => Walk
  /\ vectorized > 0 => Done
  /\ VectorizedIffSupported

LEMMA VecInvInit == Init => VecInv
<1> SUFFICES ASSUME Init PROVE VecInv
  OBVIOUS
<1>1. KernelType
  BY PrologueFits DEF Init, KernelType, Pending
<1> QED BY <1>1 DEF Init, VecInv, VectorizedIffSupported, Pending, Walking

(* The front end is at work: the kernel grows.                              *)
LEMMA AppendKeeps ==
  ASSUME NEW K, WellFormed(K), NEW I \in Instruction
  PROVE  DOMAIN K \subseteq DOMAIN Append(K, I) /\ \A v \in DOMAIN K : Append(K, I)[v] = K[v]
<1>1. K \in Seq(Instruction)
  BY DEF WellFormed
<1>2. /\ Len(K) \in Nat /\ DOMAIN K = 1..Len(K)
      /\ DOMAIN Append(K, I) = 1..(Len(K) + 1)
      /\ \A v \in 1..Len(K) : Append(K, I)[v] = K[v]
  BY <1>1, AppendFacts
<1> QED BY <1>2

LEMMA BlockType ==
  ASSUME KernelType
  PROVE  /\ block \in Nat /\ WellFormed(F)
         /\ block # 0 => block \in DOMAIN F /\ F[block].block = 0
<1>1. WellFormed(F) /\ block \in {0} \cup DOMAIN F
  BY DEF KernelType
<1>2. DOMAIN F = 1..Len(F)
  BY <1>1, KernelDomain
<1> QED BY <1>1, <1>2 DEF KernelType, Usable

LEMMA PendingInv ==
  ASSUME KernelType, vectorized = Pending
  PROVE  VecInv
BY DEF VecInv, VectorizedIffSupported, Pending, Walking

(* What the front end appends, and what it leaves of the kernel.            *)
Ready(op, ty, opnds, arr, idx) ==
  /\ op \in Opcodes /\ ty \in Widths \cup {0} /\ opnds \in Seq(Nat)
  /\ arr \in Arrays \cup {""} /\ idx \in Nat
  /\ \A o \in DOMAIN opnds : opnds[o] \in DOMAIN F /\ Visible(opnds[o])
  /\ op \in {"call", "arg", "load"} => DOMAIN opnds = {}
  /\ op \in {"store", "FNeg", "cast"} => DOMAIN opnds = {1}
  /\ op \in Binary => DOMAIN opnds = {1, 2}
  /\ op \in {"load", "store"} => arr \in Arrays /\ idx \in DOMAIN F /\ Visible(idx)
  /\ ty = 0 <=> op = "store"

Grown == WellFormed(F') /\ DOMAIN F \subseteq DOMAIN F' /\ \A v \in DOMAIN F : F'[v] = F[v]

LEMMA EmitFits ==
  ASSUME KernelType, NEW op, NEW ty, NEW opnds, NEW arr, NEW idx,
         Ready(op, ty, opnds, arr, idx), Emit(op, ty, opnds, arr, idx)
  PROVE  Grown
<1>0. /\ op \in Opcodes /\ ty \in Widths \cup {0} /\ opnds \in Seq(Nat)
      /\ arr \in Arrays \cup {""} /\ idx \in Nat
      /\ \A o \in DOMAIN opnds : opnds[o] \in DOMAIN F /\ Visible(opnds[o])
      /\ op \in {"call", "arg", "load"} => DOMAIN opnds = {}
      /\ op \in {"store", "FNeg", "cast"} => DOMAIN opnds = {1}
      /\ op \in Binary => DOMAIN opnds = {1, 2}
      /\ op \in {"load", "store"} => arr \in Arrays /\ idx \in DOMAIN F /\ Visible(idx)
      /\ ty = 0 <=> op = "store"
  BY DEF Ready
<1> DEFINE I == [op |-> op, ty |-> ty, opnds |-> opnds, arr |-> arr, idx |-> idx, block |-> block]
<1>1. /\ I.op = op /\ I.ty = ty /\ I.opnds = opnds /\ I.arr = arr /\ I.idx = idx /\ I.block = block
      /\ F' = Append(F, I)
  BY DEF Emit
<1>2. /\ block \in Nat /\ WellFormed(F)
      /\ block # 0 => block \in DOMAIN F /\ F[block].block = 0
  BY BlockType
<1>3. I \in Instruction
  BY <1>0, <1>2 DEF Instruction
<1> HIDE DEF I
<1>5. WellFormed(F')
  <2>1. \A v : Visible(v) => Usable(F, v, I.block)
    BY <1>1 DEF Visible, Usable
  <2> QED BY <1>0, <1>1, <1>2, <1>3, <2>1, AppendFits
<1>6. DOMAIN F \subseteq DOMAIN F' /\ \A v \in DOMAIN F : F'[v] = F[v]
  BY <1>1, <1>2, <1>3, AppendKeeps
<1> QED BY <1>5, <1>6 DEF Grown

LEMMA EmitInstructionKeeps ==
  ASSUME KernelType, EmitInstruction
  PROVE  VecInv'
<1>1. /\ \A v \in DOMAIN F : v \in Nat
      /\ \A a \in Arrays : ElementBits[a] \in Widths
      /\ 0 \notin Widths /\ {32, 64} \subseteq Widths
  BY KernelDomain, ElementBitsAssumption DEF KernelType, Arrays, Widths
<1>2. \A ty : \A v \in Values(ty) : v \in DOMAIN F /\ Visible(v) /\ v \in Nat
  BY <1>1 DEF Values
<1>3. ASSUME NEW a \in Arrays, NEW i \in Values(64)
      PROVE  Ready("load", ElementBits[a], <<>>, a, i)
  <2>1. <<>> \in Seq(Nat) /\ DOMAIN <<>> = {}
    OBVIOUS
  <2>2. ElementBits[a] \in Widths \cup {0} /\ ElementBits[a] # 0
    BY <1>1
  <2>3. i \in DOMAIN F /\ Visible(i) /\ i \in Nat
    BY <1>2
  <2>4. "load" \in Opcodes /\ "load" \notin Binary
    BY BinaryFacts DEF Opcodes
  <2> QED BY <2>1, <2>2, <2>3, <2>4 DEF Ready
<1>4. ASSUME NEW a \in Arrays, NEW i \in Values(64), NEW v \in Values(ElementBits[a])
      PROVE  Ready("store", 0, <<v>>, a, i)
  <2>1. <<v>> \in Seq(Nat) /\ DOMAIN <<v>> = {1} /\ <<v>>[1] = v
    BY <1>2
  <2> QED BY <1>1, <1>2, <2>1, BinaryFacts DEF Ready, Opcodes
<1>5. ASSUME NEW v \in Values(32)
      PROVE  Ready("FNeg", 32, <<v>>, "", 0) /\ Ready("cast", 64, <<v>>, "", 0)
  <2>1. <<v>> \in Seq(Nat) /\ DOMAIN <<v>> = {1} /\ <<v>>[1] = v
    BY <1>2
  <2>2. Ready("FNeg", 32, <<v>>, "", 0)
    BY <1>1, <1>2, <2>1, BinaryFacts DEF Ready, Opcodes
  <2>3. Ready("cast", 64, <<v>>, "", 0)
    BY <1>1, <1>2, <2>1, BinaryFacts DEF Ready, Opcodes
  <2> QED BY <2>2, <2>3
<1>6. ASSUME NEW op \in Binary, NEW ty \in {32, 64}, NEW u \in Values(ty), NEW v \in Values(ty)
      PROVE  Ready(op, ty, <<u, v>>, "", 0)
  <2>1. <<u, v>> \in Seq(Nat) /\ DOMAIN <<u, v>> = {1, 2} /\ <<u, v>>[1] = u /\ <<u, v>>[2] = v
    BY <1>2
  <2>2. /\ op \in Opcodes /\ op \notin {"call", "arg", "load", "store", "FNeg", "cast"}
        /\ ty \in Widths \cup {0} /\ ty # 0 /\ "" \in Arrays \cup {""} /\ 0 \in Nat
    BY <1>1, BinaryFacts DEF Opcodes
  <2>3. u \in DOMAIN F /\ Visible(u) /\ v \in DOMAIN F /\ Visible(v)
    BY <1>2
  <2>4. \A o \in DOMAIN <<u, v>> : <<u, v>>[o] \in DOMAIN F /\ Visible(<<u, v>>[o])
    BY <2>1, <2>3
  <2> DEFINE opnds == <<u, v>>
  <2>5. /\ opnds \in Seq(Nat) /\ DOMAIN opnds = {1, 2}
        /\ \A o \in DOMAIN opnds : opnds[o] \in DOMAIN F /\ Visible(opnds[o])
    BY <2>1, <2>4
  <2> HIDE DEF opnds
  <2>6. Ready(op, ty, opnds, "", 0)
    BY <2>2, <2>5 DEF Ready
  <2> QED BY <2>6 DEF opnds
<1>7. PICK op, ty, opnds, arr, idx :
        Ready(op, ty, opnds, arr, idx) /\ Emit(op, ty, opnds, arr, idx)
  <2>1. CASE \E a \in Arrays : \E i \in Values(64) :
               \/ Emit("load", ElementBits[a], <<>>, a, i)
               \/ \E v \in Values(ElementBits[a]) : Emit("store", 0, <<v>>, a, i)
    BY <1>3, <1>4, <2>1
  <2>2. CASE \E v \in Values(32) : Emit("FNeg", 32, <<v>>, "", 0) \/ Emit("cast", 64, <<v>>, "", 0)
    BY <1>5, <2>2
  <2>3. CASE \E op \in Binary, ty \in {32, 64} : \E u, v \in Values(ty) :
               Emit(op, ty, <<u, v>>, "", 0)
    BY <1>6, <2>3
  <2> QED BY <2>1, <2>2, <2>3 DEF EmitInstruction
<1>8. Grown
  BY <1>7, EmitFits
<1>9. KernelType'
  BY <1>8 DEF Grown, KernelType, EmitInstruction, Usable
<1>10. (vectorized = Pending)'
  BY DEF EmitInstruction
<1> QED BY <1>9, <1>10, PendingInv, PTL

LEMMA EmitBranchKeeps ==
  ASSUME KernelType, EmitBranch
  PROVE  VecInv'
<1>1. KernelType' /\ (vectorized = Pending)'
  BY DEF KernelType, EmitBranch, Visible, Usable
<1> QED BY <1>1, PendingInv, PTL

LEMMA NextKernelKeeps ==
  ASSUME NextKernel
  PROVE  VecInv'
<1>1. KernelType' /\ (vectorized = Pending)'
  BY PrologueFits DEF KernelType, NextKernel, Pending
<1> QED BY <1>1, PendingInv, PTL

-----------------------------------------------------------------------------
(* What the number of elements of a value says of its operands and type.    *)
LEMMA SizedFacts ==
  ASSUME NEW K, WellFormed(K), NEW v \in DOMAIN K, CalcNumSVEElmnts(K)[v] # 0
  PROVE  /\ K[v].op \in {"store"} \cup Arithmetic =>
              \A o \in DOMAIN K[v].opnds :
                CalcNumSVEElmnts(K)[K[v].opnds[o]] = CalcNumSVEElmnts(K)[v]
         /\ K[v].op \in {"arg", "load"} \cup Arithmetic =>
              NumSVEElmnts(K[v].ty) = CalcNumSVEElmnts(K)[v]
<1> DEFINE C == CalcNumSVEElmnts(K)
<1>1. C[v] = NumOf(K, C, v)
  BY CalcNum
<1>2. /\ K[v].op = "store" => DOMAIN K[v].opnds = {1}
      /\ K[v].op \in Opcodes
  BY KernelDomain DEF WellFormed, Fits, Instruction
<1>3. K[v].op \in Arithmetic => IsBinaryOp(K[v]) /\ K[v].op \notin {"arg", "load", "store"}
  BY <1>2, BinaryFacts DEF Opcodes, IsBinaryOp
<1> HIDE DEF C
<1>4. CASE K[v].op = "store"
  BY <1>1, <1>2, <1>4, BinaryFacts DEF NumOf, C
<1>5. CASE K[v].op \in {"arg", "load"}
  BY <1>1, <1>5, BinaryFacts DEF NumOf, C
<1>6. CASE K[v].op \in Arithmetic
  <2>1. C[v] = IF \A o \in DOMAIN K[v].opnds : C[K[v].opnds[o]] = NumSVEElmnts(K[v].ty)
               THEN NumSVEElmnts(K[v].ty) ELSE 0
    BY <1>1, <1>3, <1>6 DEF NumOf
  <2> QED BY <1>3, <1>6, <2>1 DEF C
<1> QED BY <1>4, <1>5, <1>6

Supported(K) ==
  /\ \A v \in Stored(K) : K[v].op \in {"arg", "load"} \cup Arithmetic
  /\ Cardinality({K[v].ty : v \in Stored(K)}) = 1

LEMMA OneType ==
  ASSUME NEW K, WellFormed(K)
  PROVE  Cardinality({K[v].ty : v \in Stored(K)}) = 1 <=>
           Stored(K) # {} /\ \A u, v \in Stored(K) : K[u].ty = K[v].ty
<1> DEFINE f == [v \in DOMAIN K |-> K[v].ty]
           S == Stored(K)
           T == {f[v] : v \in S}
<1>1. S \subseteq DOMAIN K /\ T = {K[v].ty : v \in S}
  BY StoredFacts
<1>2. IsFiniteSet(S)
  BY <1>1, KernelDomain, FS_Interval, FS_Subset
<1>3. IsFiniteSet(T)
  <2> HIDE DEF f, S
  <2> QED BY <1>2, ImageFinite
<1>4. Cardinality(T) = 1 <=> \E x : T = {x}
  <2> HIDE DEF T
  <2> QED BY <1>3, FS_Singleton
<1>5. (\E x : T = {x}) <=> S # {} /\ \A u, v \in S : f[u] = f[v]
  <2> HIDE DEF f, S
  <2>1. ASSUME NEW x, T = {x} PROVE S # {} /\ \A u, v \in S : f[u] = f[v]
    BY <2>1
  <2>2. ASSUME S # {}, \A u, v \in S : f[u] = f[v] PROVE \E x : T = {x}
    <3>1. PICK u \in S : TRUE
      BY <2>2
    <3>2. T = {f[u]}
      BY <2>2, <3>1
    <3> QED BY <3>2
  <2> QED BY <2>1, <2>2
<1>6. (\A u, v \in S : f[u] = f[v]) <=> \A u, v \in S : K[u].ty = K[v].ty
  BY <1>1
<1> QED BY <1>1, <1>4, <1>5, <1>6

(* What is stored is computed from something only if there is a store.      *)
LEMMA SeedOfStored ==
  ASSUME NEW K, WellFormed(K), Range(Seeds(K)) = {}
  PROVE  Stored(K) = {}
<1> DEFINE S == {v \in DOMAIN K : v \notin Stored(K)}
           n == Len(K)
<1>1. n \in Nat /\ DOMAIN K = 1..n
  BY KernelDomain
<1>2. ASSUME NEW v \in 1..n, (v + 1)..n \subseteq S PROVE v \in S
  <2>1. \A u \in (v + 1)..n : u \in DOMAIN K /\ K[u].op # "store" /\ u \notin Stored(K)
    BY <1>2, SeedsFacts
  <2> QED BY <1>1, <2>1, StoredFacts
<1>3. 1..n \subseteq S
  <2> HIDE DEF S, n
  <2> QED BY <1>1, <1>2, Above
<1> QED BY <1>1, <1>3, StoredFacts

(* If all that is stored is supported, of one type, the seeds agree.        *)
LEMMA SupportedAgrees ==
  ASSUME NEW K, WellFormed(K), Supported(K)
  PROVE  CommonElmnts(K) # 0
<1> DEFINE C == CalcNumSVEElmnts(K)
           N == Len(K)
<1>1. PICK w \in Stored(K) : \A v \in Stored(K) : K[v].ty = K[w].ty
  BY OneType DEF Supported
<1> DEFINE n == NumSVEElmnts(K[w].ty)
<1>2. n # 0
  BY <1>1, StoredTypes, NumType DEF Widths
<1>3. N \in Nat /\ DOMAIN K = 1..N
  BY KernelDomain
<1> DEFINE S == {v \in 1..N : v \in Stored(K) => C[v] = n}
<1>4. ASSUME NEW v \in 1..N, 1..(v - 1) \subseteq S PROVE v \in S
  <2>1. SUFFICES ASSUME v \in Stored(K) PROVE C[v] = n
    OBVIOUS
  <2>2. v \in DOMAIN K /\ K[v].ty = K[w].ty /\ C[v] = NumOf(K, C, v)
    BY <1>1, <1>3, <2>1, CalcNum
  <2>3. \A o \in DOMAIN K[v].opnds : C[K[v].opnds[o]] = n
    <3>1. \A o \in DOMAIN K[v].opnds : K[v].opnds[o] \in 1..(v - 1) /\ K[v].opnds[o] \in Stored(K)
      BY <2>1, <2>2, StoredOperands DEF WellFormed, Fits
    <3> QED BY <1>4, <3>1
  <2>4. K[v].op \in {"arg", "load"} \cup Arithmetic /\ K[v].op \in Opcodes
    BY <2>1, <2>2, KernelDomain DEF Supported, Instruction
  <2> HIDE DEF C
  <2>5. CASE K[v].op \in {"arg", "load"}
    BY <2>2, <2>5, BinaryFacts DEF NumOf, IsUnaryOp, IsBinaryOp
  <2>6. CASE K[v].op \in Arithmetic
    <3>1. IsBinaryOp(K[v]) /\ K[v].op \notin {"arg", "load", "store"}
      BY <2>4, <2>6, BinaryFacts DEF Opcodes, IsBinaryOp
    <3>2. C[v] = IF \A o \in DOMAIN K[v].opnds : C[K[v].opnds[o]] = NumSVEElmnts(K[v].ty)
                 THEN NumSVEElmnts(K[v].ty) ELSE 0
      BY <2>2, <3>1 DEF NumOf
    <3> QED BY <2>2, <2>3, <3>2
  <2> QED BY <2>4, <2>5, <2>6
<1>5. 1..N \subseteq S
  <2> HIDE DEF S, N
  <2> QED BY <1>3, <1>4, Below
<1>6. ASSUME NEW s \in Range(Seeds(K)) PROVE C[s] = n
  <2>1. s \in DOMAIN K /\ K[s].op = "store" /\ 1 \in DOMAIN K[s].opnds
    BY SeedsFacts DEF WellFormed, Fits
  <2>2. K[s].opnds[1] \in Stored(K)
    BY <2>1, StoredOperands
  <2>3. C[K[s].opnds[1]] = n
    BY <1>3, <1>5, <2>2, StoredFacts
  <2>4. C[s] = NumOf(K, C, s)
    BY <2>1, CalcNum
  <2> HIDE DEF C
  <2> QED BY <2>1, <2>3, <2>4, BinaryFacts DEF NumOf, IsUnaryOp, IsBinaryOp
<1>7. Range(Seeds(K)) # {}
  BY <1>1, SeedOfStored
<1> HIDE DEF n
<1> QED BY <1>2, <1>6, <1>7, CommonFacts

-----------------------------------------------------------------------------
(* The walk, call by call.                                                  *)
LEMMA HeadOfIncreasing ==
  ASSUME NEW n \in Nat, NEW s \in Seq(1..n), Increasing(s), s # <<>>
  PROVE  /\ Head(s) \in 1..n /\ Tail(s) \in Seq(1..n) /\ Increasing(Tail(s))
         /\ Range(s) = {Head(s)} \cup Range(Tail(s))
         /\ \A c \in Range(Tail(s)) : Head(s) < c
<1> DEFINE m == Len(s)
           t == Tail(s)
           h == Head(s)
<1>1. /\ m \in Nat \ {0} /\ DOMAIN s = 1..m /\ h = s[1] /\ s[1] \in 1..n
      /\ t \in Seq(1..n) /\ DOMAIN t = 1..(m - 1)
      /\ \A i \in 1..(m - 1) : t[i] = s[i + 1]
  OBVIOUS
<1> HIDE DEF m, t, h
<1>2. \A i \in 1..(m - 1) : i + 1 \in 1..m
  BY <1>1
<1>3. Increasing(t)
  <2>1. ASSUME NEW p \in 1..(m - 1), NEW q \in 1..(m - 1), p < q PROVE t[p] < t[q]
    <3>1. p + 1 \in 1..m /\ q + 1 \in 1..m /\ p + 1 < q + 1
      BY <1>1, <2>1
    <3>2. s[p + 1] < s[q + 1]
      BY <1>1, <3>1 DEF Increasing
    <3> QED BY <1>1, <3>2
  <2> QED BY <1>1, <2>1 DEF Increasing
<1>4. Range(s) = {h} \cup Range(t)
  <2>1. \A i \in 1..m : i = 1 \/ (i - 1 \in 1..(m - 1) /\ s[i] = t[i - 1])
    <3>1. \A i \in 1..m : i # 1 => i - 1 \in 1..(m - 1) /\ (i - 1) + 1 = i
      BY <1>1
    <3> QED BY <1>1, <3>1
  <2>2. 1 \in 1..m
    BY <1>1
  <2>3. Range(s) = {s[i] : i \in 1..m} /\ Range(t) = {t[i] : i \in 1..(m - 1)}
    BY <1>1 DEF Range
  <2>4. ASSUME NEW i \in 1..m PROVE s[i] \in {h} \cup Range(t)
    <3>1. CASE i = 1
      BY <1>1, <3>1
    <3>2. CASE i # 1
      BY <2>1, <2>3, <3>2
    <3> QED BY <3>1, <3>2
  <2>5. ASSUME NEW i \in 1..(m - 1) PROVE t[i] \in Range(s)
    BY <1>1, <1>2, <2>3
  <2>6. h \in Range(s)
    BY <1>1, <2>2, <2>3
  <2> QED BY <2>3, <2>4, <2>5, <2>6
<1>5. \A c \in Range(t) : h < c
  <2>1. ASSUME NEW i \in 1..(m - 1) PROVE h < t[i]
    <3>1. 1 \in 1..m /\ i + 1 \in 1..m /\ 1 < i + 1
      BY <1>1
    <3> QED BY <1>1, <3>1 DEF Increasing
  <2> QED BY <1>1, <2>1 DEF Range
<1> QED BY <1>1, <1>3, <1>4, <1>5 DEF t, h

LEMMA ConsOfIncreasing ==
  ASSUME NEW n \in Nat, NEW s \in Seq(1..n), Increasing(s), s # <<>>, NEW e \in 1..n, e < Head(s)
  PROVE  /\ <<e>> \o s \in Seq(1..n) /\ Increasing(<<e>> \o s)
         /\ Range(<<e>> \o s) = {e} \cup Range(s)
<1> DEFINE m == Len(s)
           t == <<e>> \o s
<1>1. /\ m \in Nat \ {0} /\ DOMAIN s = 1..m /\ \A i \in 1..m : s[i] \in 1..n
      /\ t \in Seq(1..n) /\ DOMAIN t = 1..(m + 1) /\ t[1] = e
      /\ \A i \in 2..(m + 1) : t[i] = s[i - 1]
  <2>1. <<e>> \in Seq(1..n) /\ Len(<<e>>) = 1 /\ <<e>>[1] = e
    OBVIOUS
  <2>2. /\ t \in Seq(1..n) /\ Len(t) = 1 + m
        /\ \A i \in 1..(1 + m) : t[i] = IF i <= 1 THEN <<e>>[i] ELSE s[i - 1]
    BY <2>1, ConcatProperties
  <2>3. m \in Nat \ {0} /\ DOMAIN s = 1..m /\ \A i \in 1..m : s[i] \in 1..n
    OBVIOUS
  <2> HIDE DEF m, t
  <2> QED BY <2>1, <2>2, <2>3
<1>2. e < s[1]
  OBVIOUS
<1> HIDE DEF m, t
<1>3. \A i \in 2..(m + 1) : i - 1 \in 1..m /\ e < t[i]
  <2>1. ASSUME NEW i \in 2..(m + 1) PROVE i - 1 \in 1..m /\ e < s[i - 1]
    <3>1. i - 1 \in 1..m /\ 1 \in 1..m /\ (i - 1 = 1 \/ 1 < i - 1)
      BY <1>1
    <3>2. s[1] \in Int /\ s[i - 1] \in Int
      BY <1>1, <3>1
    <3>3. CASE i - 1 = 1
      BY <1>2, <3>1, <3>3
    <3>4. CASE 1 < i - 1
      <4>1. s[1] < s[i - 1]
        BY <1>1, <3>1, <3>4 DEF Increasing
      <4> QED BY <1>2, <3>1, <3>2, <4>1
    <3> QED BY <3>1, <3>3, <3>4
  <2> QED BY <1>1, <2>1
<1>4. Increasing(t)
  <2>1. ASSUME NEW p \in 1..(m + 1), NEW q \in 1..(m + 1), p < q PROVE t[p] < t[q]
    <3>1. q \in 2..(m + 1)
      BY <1>1, <2>1
    <3>2. CASE p = 1
      BY <1>1, <1>3, <3>1, <3>2
    <3>3. CASE p # 1
      <4>1. p \in 2..(m + 1)
        BY <1>1, <3>3
      <4>2. p - 1 \in 1..m /\ q - 1 \in 1..m /\ p - 1 < q - 1
        BY <1>1, <1>3, <2>1, <3>1, <4>1
      <4> QED BY <1>1, <3>1, <4>1, <4>2 DEF Increasing
    <3> QED BY <3>2, <3>3
  <2> QED BY <1>1, <2>1 DEF Increasing
<1>5. Range(t) = {e} \cup Range(s)
  <2>1. \A i \in 1..(m + 1) : i = 1 \/ i \in 2..(m + 1)
    BY <1>1
  <2>2. \A i \in 1..m : i + 1 \in 2..(m + 1) /\ (i + 1) - 1 = i /\ i + 1 \in 1..(m + 1)
    BY <1>1
  <2>3. 1 \in 1..(m + 1)
    BY <1>1
  <2>4. \A i \in 1..m : t[i + 1] = s[i]
    BY <1>1, <2>2
  <2>5. Range(s) = {s[i] : i \in 1..m} /\ Range(t) = {t[i] : i \in 1..(m + 1)}
    BY <1>1 DEF Range
  <2>6. ASSUME NEW i \in 1..(m + 1) PROVE t[i] \in {e} \cup Range(s)
    <3>1. CASE i = 1
      BY <1>1, <3>1
    <3>2. CASE i \in 2..(m + 1)
      BY <1>1, <1>3, <2>5, <3>2
    <3> QED BY <2>1, <3>1, <3>2
  <2>7. ASSUME NEW i \in 1..m PROVE s[i] \in Range(t)
    BY <2>2, <2>4, <2>5
  <2>8. e \in Range(t)
    BY <1>1, <2>3, <2>5
  <2> QED BY <2>5, <2>6, <2>7, <2>8
<1> QED BY <1>1, <1>4, <1>5 DEF t

LEMMA VectorizeKernelKeeps ==
  ASSUME VecInv, VectorizeKernel
  PROVE  VecInv'
<1>1. KernelType /\ WellFormed(F) /\ F' = F /\ block' = block /\ EraseInstrs' = <<>>
  BY DEF VecInv, KernelType, VectorizeKernel
<1>2. CASE CommonElmnts(F) = 0
  <2>1. vectorized' = 0
    BY <1>2 DEF VectorizeKernel
  <2>2. ~Supported(F)
    BY <1>1, <1>2, SupportedAgrees
  <2>3. KernelType' /\ VectorizedIffSupported'
    BY <1>1, <2>1, <2>2 DEF KernelType, VectorizedIffSupported, Supported
  <2> QED BY <2>1, <2>3 DEF VecInv, Walking
<1>3. CASE CommonElmnts(F) # 0
  <2>1. /\ vectorized' = Walking /\ calls' = Seeds(F)
        /\ VecValueMap' = Entered(Cleared, Mask, CommonElmnts(F))
    BY <1>3 DEF VectorizeKernel
  <2>2. DOMAIN VecValueMap' = {Mask} /\ VecValueMap'[Mask] = CommonElmnts(F) /\ Entries' = {}
    BY <2>1 DEF Entered, Cleared, Entries
  <2>3. KernelType' /\ VectorizedIffSupported'
    BY <1>1, <2>1 DEF KernelType, VectorizedIffSupported
  <2>4. DOMAIN EraseInstrs' = {} /\ Erased' = {} /\ EraseInstrs' \in Seq(DOMAIN F)
    BY <1>1 DEF Erased, Range
  <2>5. MapInv'
    BY <1>1, <1>3, <2>2 DEF MapInv
  <2>6. EraseInv' /\ OperandsFirst'
    BY <1>1, <2>4 DEF EraseInv, OperandsFirst, IsInjective
  <2>7. CallInv'
    <3>1. /\ Seeds(F) \in Seq(DOMAIN F) /\ Increasing(Seeds(F))
          /\ \A v \in Range(Seeds(F)) : v \in DOMAIN F /\ F[v].op = "store"
                                        /\ CalcNumSVEElmnts(F)[v] = CommonElmnts(F)
          /\ \A v \in DOMAIN F : F[v].op = "store" => v \in Range(Seeds(F))
      BY <1>1, <1>3, SeedsFacts, CommonFacts
    <3> QED BY <1>1, <2>1, <2>2, <2>4, <3>1 DEF CallInv
  <2> QED BY <2>1, <2>3, <2>5, <2>6, <2>7 DEF VecInv, Walk, Walking
<1> QED BY <1>2, <1>3

(* The innermost call of the walk.                                          *)
LEMMA CallFacts ==
  ASSUME VecInv, InWalk
  PROVE  /\ KernelType /\ WellFormed(F) /\ Walk /\ vectorized = Walking
         /\ Len(F) \in Nat /\ DOMAIN F = 1..Len(F)
         /\ calls \in Seq(1..Len(F)) /\ Increasing(calls) /\ calls # <<>>
         /\ Value \in DOMAIN F /\ Value \in Range(calls)
         /\ Value \notin Entries /\ Value \notin Erased /\ Value # Mask
         /\ CalcNumSVEElmnts(F)[Value] = CommonElmnts(F) /\ CommonElmnts(F) # 0
         /\ Instr.op = "store" \/ Value \in Stored(F)
<1>1. KernelType /\ WellFormed(F) /\ Walk /\ vectorized = Walking
  BY DEF VecInv, KernelType, InWalk
<1>2. Len(F) \in Nat /\ DOMAIN F = 1..Len(F)
  BY <1>1, KernelDomain
<1>3. calls \in Seq(1..Len(F)) /\ Increasing(calls) /\ calls # <<>>
  BY <1>1, <1>2 DEF Walk, CallInv, InWalk
<1>4. Value \in 1..Len(F) /\ Value \in Range(calls)
  BY <1>2, <1>3, HeadOfIncreasing DEF Value
<1> QED BY <1>1, <1>2, <1>3, <1>4 DEF Walk, CallInv, MapInv, Instr, Mask

LEMMA CallReturns ==
  ASSUME VecInv, InWalk, Kept, calls' = Tail(calls), vectorized' = vectorized,
         Entries' \subseteq Entries \cup {Value}, Erased' \subseteq Erased \cup {Value},
         Erased \subseteq Erased', Instr.op = "store" => Value \in Erased'
  PROVE  KernelType' /\ VectorizedIffSupported' /\ CallInv'
<1>1. F' = F /\ block' = block
  BY DEF Kept
<1>2. KernelType' /\ VectorizedIffSupported'
  BY <1>1, CallFacts DEF KernelType, VectorizedIffSupported
<1>3. /\ calls' \in Seq(DOMAIN F') /\ Increasing(calls')
      /\ Range(calls) = {Value} \cup Range(calls') /\ Value \notin Range(calls')
  <2>1. /\ Tail(calls) \in Seq(1..Len(F)) /\ Increasing(Tail(calls))
        /\ Range(calls) = {Value} \cup Range(Tail(calls))
        /\ \A c \in Range(Tail(calls)) : Value < c
    BY CallFacts, HeadOfIncreasing DEF Value
  <2>2. Value \in Int /\ DOMAIN F = 1..Len(F)
    BY CallFacts
  <2> QED BY <1>1, <2>1, <2>2
<1>4. CallInv
  BY CallFacts DEF Walk
<1> HIDE DEF Value
<1> QED BY <1>1, <1>2, <1>3, <1>4 DEF CallInv, Instr

LEMMA VectorizeOperandKeeps ==
  ASSUME VecInv, VectorizeOperand
  PROVE  VecInv'
<1>1. /\ InWalk /\ Kept /\ Instr.op \in {"store"} \cup Arithmetic
      /\ F' = F /\ block' = block /\ vectorized' = vectorized
      /\ EraseInstrs' = EraseInstrs /\ VecValueMap' = VecValueMap
  BY DEF VectorizeOperand, Kept
<1>2. PICK o \in DOMAIN Instr.opnds :
        /\ Instr.opnds[o] \notin DOMAIN VecValueMap
        /\ calls' = <<Instr.opnds[o]>> \o calls
  BY DEF VectorizeOperand, Missing
<1> DEFINE e == Instr.opnds[o]
<1>3. e \in 1..(Value - 1) /\ Usable(F, e, Instr.block)
  BY <1>1, CallFacts DEF WellFormed, Fits, Instr
<1>4. /\ e \in DOMAIN F /\ e < Value /\ F[e].ty # 0 /\ F[e].op # "store" /\ e \notin Entries
      /\ Value \in Nat
  <2>1. e \in 1..Len(F) /\ e < Value /\ DOMAIN F = 1..Len(F) /\ Value \in Nat
    BY <1>1, <1>3, CallFacts
  <2>2. F[e].ty # 0
    BY <1>3 DEF Usable
  <2>3. F[e].op # "store"
    BY <1>1, <2>1, <2>2, CallFacts DEF WellFormed, Fits
  <2> QED BY <1>2, <2>1, <2>2, <2>3 DEF Entries
<1>5. e \notin Erased
  BY <1>1, <1>4, CallFacts DEF Walk, EraseInv
<1>6. CalcNumSVEElmnts(F)[e] = CommonElmnts(F)
  BY <1>1, CallFacts, SizedFacts DEF Instr
<1>7. e \in Stored(F)
  BY <1>1, CallFacts, StoredOperands DEF Instr
<1>8. calls' \in Seq(DOMAIN F) /\ Increasing(calls') /\ Range(calls') = {e} \cup Range(calls)
  <2>1. e \in 1..Len(F) /\ e < Head(calls) /\ DOMAIN F = 1..Len(F)
    BY <1>1, <1>4, CallFacts DEF Value
  <2> QED BY <1>1, <1>2, <2>1, CallFacts, ConsOfIncreasing
<1> HIDE DEF e
<1>9. CallInv'
  <2>1. CallInv
    BY <1>1, CallFacts DEF Walk
  <2>2. Entries' = Entries /\ Erased' = Erased
    BY <1>1 DEF Entries, Erased
  <2> QED BY <1>1, <1>4, <1>5, <1>6, <1>7, <1>8, <2>1, <2>2 DEF CallInv
<1>10. MapInv' /\ EraseInv' /\ OperandsFirst'
  BY <1>1, CallFacts DEF Walk, MapInv, EraseInv, OperandsFirst, Entries, Erased
<1>11. KernelType' /\ VectorizedIffSupported' /\ vectorized' = Walking
  BY <1>1, CallFacts DEF KernelType, VectorizedIffSupported
<1> QED BY <1>9, <1>10, <1>11 DEF VecInv, Walk, Walking

LEMMA EnteredFacts ==
  ASSUME NEW v, NEW n, VecValueMap' = Entered(VecValueMap, v, n), v # Mask
  PROVE  /\ DOMAIN VecValueMap' = DOMAIN VecValueMap \cup {v} /\ Entries' = Entries \cup {v}
         /\ \A u \in DOMAIN VecValueMap' : VecValueMap'[u] = IF u = v THEN n ELSE VecValueMap[u]
BY DEF Entered, Entries

LEMMA DuplicateConstValueKeeps ==
  ASSUME VecInv, DuplicateConstValue
  PROVE  VecInv'
<1>1. /\ InWalk /\ Kept /\ Instr.op = "arg" /\ Instr = F[Value]
      /\ F' = F /\ block' = block /\ vectorized' = vectorized /\ EraseInstrs' = EraseInstrs
      /\ calls' = Tail(calls)
      /\ VecValueMap' = Entered(VecValueMap, Value, NumSVEElmnts(Instr.ty))
  BY DEF DuplicateConstValue, Kept, Instr
<1>2. /\ Value \in DOMAIN F /\ Value # Mask /\ DOMAIN Instr.opnds = {} /\ Range(Instr.opnds) = {}
      /\ NumSVEElmnts(Instr.ty) = CommonElmnts(F)
  <2>1. DOMAIN Instr.opnds = {}
    BY <1>1, CallFacts DEF WellFormed, Fits
  <2>2. NumSVEElmnts(Instr.ty) = CommonElmnts(F)
    BY <1>1, CallFacts, SizedFacts
  <2> QED BY <1>1, <2>1, <2>2, CallFacts DEF Range
<1>3. /\ DOMAIN VecValueMap' = DOMAIN VecValueMap \cup {Value} /\ Entries' = Entries \cup {Value}
      /\ \A u \in DOMAIN VecValueMap' :
           VecValueMap'[u] = IF u = Value THEN CommonElmnts(F) ELSE VecValueMap[u]
  <2>1. VecValueMap' = Entered(VecValueMap, Value, CommonElmnts(F))
    BY <1>1, <1>2
  <2> HIDE DEF Value
  <2> QED BY <1>2, <2>1, EnteredFacts
<1>4. Erased' = Erased
  BY <1>1 DEF Erased
<1>5. KernelType' /\ VectorizedIffSupported' /\ CallInv'
  BY <1>1, <1>3, <1>4, CallReturns
<1>6. MapInv /\ EraseInv /\ OperandsFirst /\ vectorized' = Walking
  BY <1>1, CallFacts DEF Walk
<1> HIDE DEF Value
<1>7. MapInv'
  BY <1>1, <1>2, <1>3, <1>4, <1>6 DEF MapInv
<1>8. EraseInv' /\ OperandsFirst'
  BY <1>1, <1>3, <1>4, <1>6 DEF EraseInv, OperandsFirst
<1> QED BY <1>5, <1>6, <1>7, <1>8 DEF VecInv, Walk, Walking

LEMMA ErasedOnce ==
  ASSUME VecInv, InWalk, Kept, EraseInstrs' = Append(EraseInstrs, Value), Missing(Instr.opnds) = {}
  PROVE  /\ EraseInstrs' \in Seq(DOMAIN F) /\ IsInjective(EraseInstrs')
         /\ Erased' = Erased \cup {Value} /\ Range(Instr.opnds) \subseteq Entries
         /\ OperandsFirst'
<1> DEFINE n == Len(EraseInstrs)
           e == EraseInstrs
<1>1. /\ F' = F /\ Value \in DOMAIN F /\ Value \notin Erased /\ Value \notin Entries
      /\ e \in Seq(DOMAIN F) /\ IsInjective(e) /\ OperandsFirst
      /\ \A v \in Erased : Range(F[v].opnds) \subseteq Entries
  BY CallFacts DEF Walk, EraseInv, Kept
<1>2. /\ e' \in Seq(DOMAIN F) /\ n \in Nat /\ DOMAIN e = 1..n /\ DOMAIN e' = 1..(n + 1)
      /\ e'[n + 1] = Value /\ \A p \in 1..n : e'[p] = e[p]
      /\ Range(e') = Range(e) \cup {Value}
  BY <1>1, AppendFacts
<1>3. Erased' = Erased \cup {Value}
  BY <1>2 DEF Erased
<1>4. Range(Instr.opnds) \subseteq Entries
  <2>1. ASSUME NEW o \in DOMAIN Instr.opnds PROVE Instr.opnds[o] \in Entries
    <3>1. Instr.opnds[o] \in 1..(Value - 1) /\ Value \in Nat
      BY CallFacts DEF WellFormed, Fits, Instr
    <3>2. Instr.opnds[o] \in DOMAIN VecValueMap
      BY DEF Missing
    <3> QED BY <3>1, <3>2 DEF Entries, Mask
  <2> QED BY <2>1 DEF Range
<1>5. \A p \in 1..n : e[p] \in Erased
  BY <1>2 DEF Erased, Range
<1>6. Instr = F[Value]
  BY DEF Instr
<1> HIDE DEF n, Value
<1>7. IsInjective(e')
  <2>1. SUFFICES ASSUME NEW p \in 1..(n + 1), NEW q \in 1..(n + 1), e'[p] = e'[q] PROVE p = q
    BY <1>2 DEF IsInjective
  <2>2. (p \in 1..n \/ p = n + 1) /\ (q \in 1..n \/ q = n + 1)
    BY <1>2
  <2>3. CASE p \in 1..n /\ q \in 1..n
    BY <1>1, <1>2, <2>1, <2>3 DEF IsInjective
  <2>4. CASE p \in 1..n /\ q = n + 1
    BY <1>1, <1>2, <1>5, <2>1, <2>4
  <2>5. CASE p = n + 1 /\ q \in 1..n
    BY <1>1, <1>2, <1>5, <2>1, <2>5
  <2> QED BY <2>2, <2>3, <2>4, <2>5
<1>8. OperandsFirst'
  <2>1. SUFFICES ASSUME NEW p \in 1..(n + 1), NEW q \in 1..(n + 1),
                        e'[p] \in Range(F[e'[q]].opnds)
                 PROVE  p < q
    BY <1>1, <1>2 DEF OperandsFirst
  <2>2. (p \in 1..n \/ p = n + 1) /\ (q \in 1..n \/ q = n + 1) /\ n \in Nat
    BY <1>2
  <2>3. CASE p \in 1..n /\ q \in 1..n
    BY <1>1, <1>2, <2>1, <2>3 DEF OperandsFirst
  <2>4. CASE p \in 1..n /\ q = n + 1
    BY <2>2, <2>4
  <2>5. CASE p = n + 1
    <3>1. Range(F[e'[q]].opnds) \subseteq Entries
      BY <1>1, <1>2, <1>4, <1>5, <1>6, <2>2
    <3> QED BY <1>1, <1>2, <2>1, <2>5, <3>1
  <2> QED BY <2>2, <2>3, <2>4, <2>5
<1> QED BY <1>2, <1>3, <1>4, <1>7, <1>8

LEMMA VectorizeResultKeeps ==
  ASSUME VecInv, VectorizeResult
  PROVE  VecInv'
<1>1. /\ InWalk /\ Kept /\ Instr.op \in {"load"} \cup Arithmetic /\ Instr = F[Value]
      /\ Missing(Instr.opnds) = {}
      /\ F' = F /\ block' = block /\ vectorized' = vectorized
      /\ EraseInstrs' = Append(EraseInstrs, Value) /\ calls' = Tail(calls)
      /\ VecValueMap' = Entered(VecValueMap, Value, NumSVEElmnts(Instr.ty))
  BY DEF VectorizeResult, Kept, Instr
<1>2. /\ Value \in DOMAIN F /\ Value # Mask /\ NumSVEElmnts(Instr.ty) = CommonElmnts(F)
      /\ Instr.op \notin {"arg", "store"}
  <2>1. NumSVEElmnts(Instr.ty) = CommonElmnts(F)
    BY <1>1, CallFacts, SizedFacts
  <2>2. Instr.op \notin {"arg", "store"}
    BY <1>1, BinaryFacts
  <2> QED BY <1>1, <2>1, <2>2, CallFacts
<1>3. /\ DOMAIN VecValueMap' = DOMAIN VecValueMap \cup {Value} /\ Entries' = Entries \cup {Value}
      /\ \A u \in DOMAIN VecValueMap' :
           VecValueMap'[u] = IF u = Value THEN CommonElmnts(F) ELSE VecValueMap[u]
  <2>1. VecValueMap' = Entered(VecValueMap, Value, CommonElmnts(F))
    BY <1>1, <1>2
  <2> HIDE DEF Value
  <2> QED BY <1>2, <2>1, EnteredFacts
<1>4. /\ EraseInstrs' \in Seq(DOMAIN F) /\ IsInjective(EraseInstrs')
      /\ Erased' = Erased \cup {Value} /\ Range(Instr.opnds) \subseteq Entries
      /\ OperandsFirst'
  BY <1>1, ErasedOnce
<1>5. KernelType' /\ VectorizedIffSupported' /\ CallInv'
  BY <1>1, <1>3, <1>4, CallReturns
<1>6. MapInv /\ EraseInv /\ vectorized' = Walking
  BY <1>1, CallFacts DEF Walk
<1> HIDE DEF Value
<1>7. MapInv'
  BY <1>1, <1>2, <1>3, <1>4, <1>6 DEF MapInv
<1>8. EraseInv'
  BY <1>1, <1>2, <1>3, <1>4, <1>6 DEF EraseInv
<1> QED BY <1>4, <1>5, <1>6, <1>7, <1>8 DEF VecInv, Walk, Walking

LEMMA VectorizeStoreKeeps ==
  ASSUME VecInv, VectorizeStore
  PROVE  VecInv'
<1>1. /\ InWalk /\ Kept /\ Instr.op = "store" /\ Instr = F[Value] /\ Missing(Instr.opnds) = {}
      /\ F' = F /\ block' = block /\ vectorized' = vectorized /\ VecValueMap' = VecValueMap
      /\ EraseInstrs' = Append(EraseInstrs, Value) /\ calls' = Tail(calls)
  BY DEF VectorizeStore, Kept, Instr
<1>2. Entries' = Entries
  BY <1>1 DEF Entries
<1>3. /\ EraseInstrs' \in Seq(DOMAIN F) /\ IsInjective(EraseInstrs')
      /\ Erased' = Erased \cup {Value} /\ Range(Instr.opnds) \subseteq Entries
      /\ OperandsFirst'
  BY <1>1, ErasedOnce
<1>4. KernelType' /\ VectorizedIffSupported' /\ CallInv'
  BY <1>1, <1>2, <1>3, CallReturns
<1>5. MapInv /\ EraseInv /\ vectorized' = Walking
  BY <1>1, CallFacts DEF Walk
<1> HIDE DEF Value
<1>6. MapInv'
  BY <1>1, <1>2, <1>3, <1>5 DEF MapInv
<1>7. EraseInv'
  BY <1>1, <1>2, <1>3, <1>5 DEF EraseInv
<1> QED BY <1>3, <1>4, <1>5, <1>6, <1>7 DEF VecInv, Walk, Walking

LEMMA GiveUpKeeps ==
  ASSUME VecInv, GiveUp
  PROVE  VecInv'
<1>1. /\ InWalk /\ F' = F /\ block' = block /\ vectorized' = 0
      /\ Instr.op \notin {"arg", "load", "store"} \cup Arithmetic
  BY DEF GiveUp, Kept
<1>2. Value \in Stored(F) /\ KernelType
  BY <1>1, CallFacts
<1>3. ~Supported(F)
  BY <1>1, <1>2 DEF Supported, Instr
<1> HIDE DEF Value
<1>4. VectorizedIffSupported' /\ KernelType'
  BY <1>1, <1>2, <1>3 DEF VectorizedIffSupported, Supported, KernelType
<1> QED BY <1>1, <1>4 DEF VecInv, Walking

(* All the calls have returned: what was met is erased, users first.        *)
LEMMA ReverseFacts ==
  ASSUME NEW S, NEW s \in Seq(S)
  PROVE  /\ Reverse(s) \in Seq(S) /\ Len(s) \in Nat
         /\ DOMAIN s = 1..Len(s) /\ DOMAIN Reverse(s) = 1..Len(s)
         /\ \A p \in 1..Len(s) : (Len(s) - p) + 1 \in 1..Len(s) /\ Reverse(s)[p] = s[(Len(s) - p) + 1]
         /\ Range(Reverse(s)) = Range(s)
<1> DEFINE n == Len(s)
           r == Reverse(s)
<1>1. n \in Nat /\ DOMAIN s = 1..n /\ \A p \in 1..n : s[p] \in S
  OBVIOUS
<1>2. r = [i \in 1..n |-> s[(n - i) + 1]]
  BY DEF Reverse
<1> HIDE DEF n, r
<1>3. \A p \in 1..n : (n - p) + 1 \in 1..n /\ (n - ((n - p) + 1)) + 1 = p
  BY <1>1
<1>4. DOMAIN r = 1..n /\ \A p \in 1..n : r[p] = s[(n - p) + 1]
  BY <1>2
<1>5. r \in Seq(S)
  <2>1. r \in [1..n -> S]
    BY <1>1, <1>2, <1>3
  <2> QED BY <1>1, <2>1, FunctionIsSeq
<1>6. Range(r) = Range(s)
  <2>1. Range(s) = {s[p] : p \in 1..n} /\ Range(r) = {r[p] : p \in 1..n}
    BY <1>1, <1>4 DEF Range
  <2>2. \A p \in 1..n : s[p] = r[(n - p) + 1]
    BY <1>3, <1>4
  <2> QED BY <1>3, <1>4, <2>1, <2>2
<1> QED BY <1>1, <1>3, <1>4, <1>5, <1>6 DEF n, r

LEMMA AllMet ==
  ASSUME VecInv, vectorized = Walking, calls = <<>>
  PROVE  /\ \A v \in DOMAIN F : F[v].op = "store" => v \in Erased
         /\ Stored(F) \subseteq Entries
<1>1. WellFormed(F) /\ MapInv /\ EraseInv /\ CallInv
  BY DEF VecInv, KernelType, Walk
<1>2. Range(calls) = {}
  BY DEF Range
<1>3. \A v \in DOMAIN F : F[v].op = "store" => v \in Erased
  BY <1>1, <1>2 DEF CallInv
<1> DEFINE n == Len(F)
           S == {v \in 1..n : v \in Stored(F) => v \in Entries}
<1>4. n \in Nat /\ DOMAIN F = 1..n
  BY <1>1, KernelDomain
<1>5. ASSUME NEW v \in 1..n, (v + 1)..n \subseteq S PROVE v \in S
  <2>1. SUFFICES ASSUME v \in Stored(F) PROVE v \in Entries
    OBVIOUS
  <2>2. PICK u \in (v + 1)..n : v \in Range(F[u].opnds) /\ (F[u].op = "store" \/ u \in Stored(F))
    BY <1>1, <1>4, <2>1, StoredFacts
  <2>3. u \in DOMAIN F
    BY <1>4, <2>2
  <2>4. CASE F[u].op = "store"
    BY <1>1, <1>3, <2>2, <2>3, <2>4 DEF EraseInv
  <2>5. CASE u \in Stored(F)
    BY <1>1, <1>5, <2>2, <2>5 DEF MapInv
  <2> QED BY <2>2, <2>4, <2>5
<1>6. 1..n \subseteq S
  <2> HIDE DEF S, n
  <2> QED BY <1>4, <1>5, Above
<1> QED BY <1>1, <1>3, <1>4, <1>6, StoredFacts

LEMMA EraseAllKeeps ==
  ASSUME VecInv, EraseAll
  PROVE  VecInv'
<1>1. /\ vectorized = Walking /\ calls = <<>> /\ F' = F /\ block' = block
      /\ VecValueMap' = VecValueMap /\ EraseInstrs' = Reverse(EraseInstrs)
      /\ vectorized' = VecValueMap[Mask]
  BY DEF EraseAll, Kept, EraseOrder
<1>2. KernelType /\ WellFormed(F) /\ MapInv /\ EraseInv /\ OperandsFirst
  BY <1>1 DEF VecInv, KernelType, Walk
<1>3. vectorized' = CommonElmnts(F) /\ CommonElmnts(F) \in Nat /\ CommonElmnts(F) # 0
  BY <1>1, <1>2, CommonFacts DEF MapInv
<1> DEFINE n == Len(EraseInstrs)
<1>4. /\ EraseInstrs' \in Seq(DOMAIN F) /\ n \in Nat
      /\ DOMAIN EraseInstrs = 1..n /\ DOMAIN EraseInstrs' = 1..n
      /\ \A p \in 1..n : (n - p) + 1 \in 1..n /\ EraseInstrs'[p] = EraseInstrs[(n - p) + 1]
      /\ Erased' = Erased
  <2>1. EraseInstrs \in Seq(DOMAIN F)
    BY <1>2 DEF EraseInv
  <2> QED BY <1>1, <2>1, ReverseFacts DEF Erased
<1> HIDE DEF n
<1>5. Entries' = Entries
  BY <1>1 DEF Entries
<1>6. IsInjective(EraseInstrs')
  <2>1. SUFFICES ASSUME NEW p \in 1..n, NEW q \in 1..n, EraseInstrs'[p] = EraseInstrs'[q] PROVE p = q
    BY <1>4 DEF IsInjective
  <2>2. (n - p) + 1 = (n - q) + 1
    BY <1>2, <1>4, <2>1 DEF EraseInv, IsInjective
  <2> QED BY <1>4, <2>2
<1>7. ErasedAfterUsers'
  <2>1. SUFFICES ASSUME NEW p \in 1..n, NEW q \in 1..n,
                        EraseInstrs'[p] \in Range(F[EraseInstrs'[q]].opnds)
                 PROVE  q < p
    BY <1>1, <1>4, <1>6 DEF ErasedAfterUsers
  <2>2. (n - p) + 1 < (n - q) + 1
    BY <1>2, <1>4, <2>1 DEF OperandsFirst
  <2> QED BY <1>4, <2>2
<1>8. MapInv' /\ EraseInv'
  BY <1>1, <1>2, <1>4, <1>5, <1>6 DEF MapInv, EraseInv
<1>9. \A v \in DOMAIN F : F[v].op = "store" => v \in Erased
  BY <1>1, AllMet
<1>10. Supported(F)
  <2>1. Stored(F) \subseteq Entries
    BY <1>1, AllMet
  <2>2. \A v \in Stored(F) : F[v].op \in {"arg", "load"} \cup Arithmetic
                             /\ NumSVEElmnts(F[v].ty) = CommonElmnts(F)
    BY <1>2, <2>1 DEF MapInv
  <2>3. \A u, v \in Stored(F) : F[u].ty = F[v].ty
    BY <1>2, <2>2, StoredTypes, NumType
  <2>4. Stored(F) # {}
    <3>1. PICK s \in Range(Seeds(F)) : TRUE
      BY <1>2, <1>3, CommonFacts
    <3>2. s \in DOMAIN F /\ F[s].op = "store"
      BY <1>2, SeedsFacts
    <3>3. 1 \in DOMAIN F[s].opnds
      BY <1>2, <3>2 DEF WellFormed, Fits
    <3> QED BY <1>2, <3>2, <3>3, StoredOperands
  <2> QED BY <1>2, <2>2, <2>3, <2>4, OneType DEF Supported
<1>11. VectorizedIffSupported'
  BY <1>1, <1>3, <1>10 DEF VectorizedIffSupported, Supported
<1>12. KernelType'
  BY <1>1, <1>2, <1>3 DEF KernelType
<1>13. Done'
  BY <1>1, <1>3, <1>4, <1>7, <1>8, <1>9 DEF Done
<1> QED BY <1>3, <1>11, <1>12, <1>13 DEF VecInv, Walking

LEMMA VecInvStutters ==
  ASSUME VecInv, UNCHANGED vars
  PROVE  VecInv'
<1>1. /\ F' = F /\ block' = block /\ EraseInstrs' = EraseInstrs /\ VecValueMap' = VecValueMap
      /\ calls' = calls /\ vectorized' = vectorized
  BY DEF vars
<1>2. Entries' = Entries /\ Erased' = Erased
  BY <1>1 DEF Entries, Erased
<1>3. KernelType' /\ VectorizedIffSupported'
  BY <1>1 DEF VecInv, KernelType, VectorizedIffSupported
<1>4. (vectorized = Walking => Walk) => (vectorized' = Walking => Walk')
  BY <1>1, <1>2 DEF Walk, MapInv, EraseInv, OperandsFirst, CallInv
<1>5. (vectorized > 0 => Done) => (vectorized' > 0 => Done')
  BY <1>1, <1>2 DEF Done, MapInv, EraseInv, ErasedAfterUsers
<1> QED BY <1>3, <1>4, <1>5 DEF VecInv

LEMMA VecInvStep == VecInv /\ [Next]_vars => VecInv'
<1> SUFFICES ASSUME VecInv, [Next]_vars PROVE VecInv'
  OBVIOUS
<1>1. KernelType
  BY DEF VecInv
<1>2. CASE EmitInstruction
  BY <1>1, <1>2, EmitInstructionKeeps
<1>3. CASE EmitBranch
  BY <1>1, <1>3, EmitBranchKeeps
<1>4. CASE VectorizeKernel
  BY <1>4, VectorizeKernelKeeps
<1>5. CASE VectorizeValue
  BY <1>5, VectorizeOperandKeeps, DuplicateConstValueKeeps, VectorizeResultKeeps,
     VectorizeStoreKeeps, GiveUpKeeps DEF VectorizeValue
<1>6. CASE EraseAll
  BY <1>6, EraseAllKeeps
<1>7. CASE NextKernel
  BY <1>7, NextKernelKeeps
<1>8. CASE UNCHANGED vars
  BY <1>8, VecInvStutters
<1> QED BY <1>2, <1>3, <1>4, <1>5, <1>6, <1>7, <1>8 DEF Next

LEMMA VecInvHolds == Spec => []VecInv
BY VecInvInit, VecInvStep, PTL DEF Spec

(* A clone's erased instructions are all different, and each comes after    *)
(* all the erased ones that use it: the reversed order of the walk in       *)
(* doVectorization never erases a value that still has an erased user.      *)
THEOREM ErasedInOrder == Spec => []ErasedAfterUsers
<1>1. VecInv => ErasedAfterUsers
  BY DEF VecInv, Done, ErasedAfterUsers
<1> QED BY <1>1, VecInvHolds, PTL

(* All the vectors the walk creates have as many elements as the one mask   *)
(* vectorizeKernel made from the common number of the seeds.                *)
THEOREM OneMaskForAll == Spec => []OneElementCount
<1>1. VecInv => OneElementCount
  BY DEF VecInv, Done, MapInv, OneElementCount
<1> QED BY <1>1, VecInvHolds, PTL

(* vectorizeKernel succeeds exactly on the kernels whose stored values come *)
(* from loads, parameters and supported arithmetic of one width, whatever   *)
(* the members of the vectorizer held from the kernels before.              *)
THEOREM SupportedAreVectorized == Spec => []VectorizedIffSupported
<1>1. VecInv => VectorizedIffSupported
  BY DEF VecInv
<1> QED BY <1>1, VecInvHolds, PTL

-----------------------------------------------------------------------------
(* A run of a kernel, instruction by instruction.                           *)
Begin(base, mem) == [base |-> base, env |-> <<>>, mem |-> mem, read |-> {}, written |-> {}]

IsRun(K, n, vec, lanes, start, f) ==
  f = [i \in 0..n |-> IF i = 0 THEN start ELSE Step(K, vec, lanes, f[i - 1], i)]

LEMMA RunExists ==
  ASSUME NEW K, NEW n \in Nat, NEW vec, NEW lanes, NEW start
  PROVE  \E f : IsRun(K, n, vec, lanes, start, f)
<1> DEFINE S == {k \in 0..n : \E f : /\ f[0] = start
                                     /\ \A i \in 1..k : f[i] = Step(K, vec, lanes, f[i - 1], i)}
<1>1. 0 \in S
  <2> DEFINE f == [i \in {0} |-> start]
  <2>1. f[0] = start
    OBVIOUS
  <2> HIDE DEF f
  <2> QED BY <2>1
<1>2. ASSUME NEW k \in 0..(n - 1), k \in S PROVE k + 1 \in S
  <2>1. PICK f : f[0] = start /\ \A i \in 1..k : f[i] = Step(K, vec, lanes, f[i - 1], i)
    BY <1>2
  <2> DEFINE g == [i \in 0..n |-> IF i \in 0..k THEN f[i] ELSE Step(K, vec, lanes, f[k], k + 1)]
  <2>2. /\ \A i \in 0..k : g[i] = f[i]
        /\ g[k + 1] = Step(K, vec, lanes, f[k], k + 1)
    OBVIOUS
  <2> HIDE DEF g
  <2>3. \A i \in 1..(k + 1) : g[i] = Step(K, vec, lanes, g[i - 1], i)
    <3>1. ASSUME NEW i \in 1..(k + 1) PROVE i - 1 \in 0..k /\ i \in 0..(k + 1) /\ (i = k + 1 \/ i \in 1..k)
      OBVIOUS
    <3>2. ASSUME NEW i \in 1..(k + 1) PROVE g[i] = Step(K, vec, lanes, g[i - 1], i)
      <4>1. CASE i = k + 1
        <5>1. i - 1 = k /\ k \in 0..k
          BY <4>1
        <5> QED BY <2>2, <4>1, <5>1
      <4>2. CASE i \in 1..k
        <5>1. i \in 0..k /\ i - 1 \in 0..k
          BY <3>1, <4>2
        <5> QED BY <2>1, <2>2, <4>2, <5>1
      <4> QED BY <3>1, <4>1, <4>2
    <3> QED BY <3>2
  <2>4. g[0] = start
    BY <2>1, <2>2
  <2>5. k + 1 \in 0..n
    OBVIOUS
  <2> QED BY <2>3, <2>4, <2>5
<1>3. n \in S
  <2> HIDE DEF S
  <2>1. \A k \in 0..(n - 1) : k \in S => k + 1 \in S
    BY <1>2
  <2>2. 0..n \subseteq S
    BY <1>1, <2>1, Upwards
  <2> QED BY <2>2
<1>4. PICK f : f[0] = start /\ \A i \in 1..n : f[i] = Step(K, vec, lanes, f[i - 1], i)
  BY <1>3
<1> DEFINE h == [i \in 0..n |-> f[i]]
<1>5. h = [i \in 0..n |-> IF i = 0 THEN start ELSE Step(K, vec, lanes, h[i - 1], i)]
  <2>1. ASSUME NEW i \in 0..n PROVE h[i] = IF i = 0 THEN start ELSE Step(K, vec, lanes, h[i - 1], i)
    <3>1. CASE i = 0
      BY <1>4, <3>1
    <3>2. CASE i # 0
      <4>1. i \in 1..n /\ i - 1 \in 0..n
        BY <3>2
      <4> QED BY <1>4, <3>2, <4>1
    <3> QED BY <3>1, <3>2
  <2> QED BY <2>1
<1> HIDE DEF h
<1> QED BY <1>5 DEF IsRun

LEMMA RunFacts ==
  ASSUME NEW K, Len(K) \in Nat, NEW vec, NEW lanes, NEW base, NEW mem
  PROVE  /\ RunStates(K, vec, lanes, base, mem)[0] = Begin(base, mem)
         /\ \A i \in 1..Len(K) :
              RunStates(K, vec, lanes, base, mem)[i]
                = Step(K, vec, lanes, RunStates(K, vec, lanes, base, mem)[i - 1], i)
<1> DEFINE n == Len(K)
           start == Begin(base, mem)
           P(f) == IsRun(K, n, vec, lanes, start, f)
           C == CHOOSE f : P(f)
<1>1. n \in Nat
  OBVIOUS
<1>2. RunStates(K, vec, lanes, base, mem) = C
  BY DEF RunStates, Begin, IsRun
<1> HIDE DEF n, start
<1>3. \E f : P(f)
  BY <1>1, RunExists
<1> HIDE DEF P
<1>4. P(C)
  BY <1>3
<1> HIDE DEF C
<1>5. /\ C[0] = start
      /\ \A i \in 1..n : C[i] = Step(K, vec, lanes, C[i - 1], i)
  <2>1. 0 \in 0..n /\ \A i \in 1..n : i \in 0..n /\ i # 0
    BY <1>1
  <2> QED BY <1>4, <2>1 DEF P, IsRun
<1> QED BY <1>2, <1>5 DEF n, start
-----------------------------------------------------------------------------
(* The types of a run's states, and what a step keeps.                      *)
Cells == Arrays \X (0..Top)
Places == Arrays \X Int

RunState(lanes) == [base : Int, env : Seq([lanes -> Int]), mem : [Cells -> Int],
                    read : SUBSET Places, written : SUBSET Places]

LEMMA MemoryType == Memory \in [Cells -> Int]
<1>1. \A c \in Cells : ElementBits[c[1]] \in Int /\ c[2] \in Int
  BY ElementBitsAssumption DEF Cells, Arrays, Widths
<1> QED BY <1>1 DEF Memory, Cells

LEMMA EnvType ==
  ASSUME NEW lanes, NEW r \in RunState(lanes), NEW v \in 1..Len(r.env), NEW k \in lanes
  PROVE  r.env[v][k] \in Int
<1>1. r.env \in Seq([lanes -> Int])
  BY DEF RunState
<1>2. r.env[v] \in [lanes -> Int]
  BY <1>1
<1> QED BY <1>2

LEMMA ApplyType ==
  ASSUME NEW op, NEW x \in Int, NEW y \in Int
  PROVE  Apply(op, x, y) \in Int
BY DEF Apply

(* The instruction i of a state after i - 1 instructions.                   *)
Before(K, lanes, r, i) ==
  /\ WellFormed(K) /\ i \in DOMAIN K
  /\ lanes \in SUBSET Int /\ 0 \in lanes
  /\ r \in RunState(lanes) /\ Len(r.env) = i - 1

LEMMA OperandType ==
  ASSUME NEW K, NEW lanes, NEW r, NEW i, Before(K, lanes, r, i)
  PROVE  /\ i \in Nat
         /\ \A o \in DOMAIN K[i].opnds : \A k \in lanes : r.env[K[i].opnds[o]][k] \in Int
         /\ K[i].op \in {"load", "store"} => r.env[K[i].idx][0] \in Int /\ K[i].arr \in Arrays
         /\ K[i].op \in Binary => DOMAIN K[i].opnds = {1, 2}
         /\ K[i].op \notin {"call", "arg", "load"} \cup Binary => DOMAIN K[i].opnds = {1}
<1>1. WellFormed(K) /\ i \in DOMAIN K /\ 0 \in lanes /\ r \in RunState(lanes) /\ Len(r.env) = i - 1
  BY DEF Before
<1>2. /\ i \in Nat
      /\ \A o \in DOMAIN K[i].opnds : K[i].opnds[o] \in 1..Len(r.env)
      /\ K[i].op \in {"load", "store"} => K[i].idx \in 1..Len(r.env) /\ K[i].arr \in Arrays
      /\ K[i].op \in Binary => DOMAIN K[i].opnds = {1, 2}
      /\ K[i].op \in {"store", "FNeg", "cast"} => DOMAIN K[i].opnds = {1}
  <2>1. i \in Nat
    BY <1>1, KernelDomain
  <2> QED BY <1>1, <2>1 DEF WellFormed, Fits
<1>3. K[i].op \in Opcodes
  BY <1>1, KernelDomain DEF Instruction
<1>4. K[i].op \notin {"call", "arg", "load"} \cup Binary => K[i].op \in {"store", "FNeg", "cast"}
  BY <1>3 DEF Opcodes
<1> QED BY <1>1, <1>2, <1>4, EnvType

LEMMA ResultType ==
  ASSUME NEW K, NEW lanes, NEW r, NEW i, Before(K, lanes, r, i), NEW k \in lanes
  PROVE  Result(K, r, i, k) \in Int
<1>1. r.base \in Int /\ r.mem \in [Cells -> Int]
  BY DEF Before, RunState
<1>2. Load(K, r, i, k) \in Int
  BY <1>1 DEF Load
<1>3. CASE K[i].op \in {"call", "arg", "load", "store"}
  BY <1>1, <1>2, <1>3, BinaryFacts DEF Result
<1>4. CASE K[i].op \in Binary
  <2>1. r.env[K[i].opnds[1]][k] \in Int /\ r.env[K[i].opnds[2]][k] \in Int
    BY <1>4, OperandType
  <2>2. Apply(K[i].op, r.env[K[i].opnds[1]][k], r.env[K[i].opnds[2]][k]) \in Int
    BY <2>1, ApplyType
  <2> QED BY <1>4, <2>2, BinaryFacts DEF Result
<1>5. CASE K[i].op \notin {"call", "arg", "load", "store"} \cup Binary
  <2>1. r.env[K[i].opnds[1]][k] \in Int
    BY <1>5, OperandType
  <2> QED BY <1>5, <2>1 DEF Result
<1> QED BY <1>3, <1>4, <1>5

LEMMA ResultsType ==
  ASSUME NEW K, NEW vec, NEW lanes, NEW r, NEW i, Before(K, lanes, r, i)
  PROVE  Results(K, vec, lanes, r, i) \in [lanes -> Int]
<1>1. 0 \in lanes
  BY DEF Before
<1>2. \A k \in lanes : (IF i \in vec THEN k ELSE 0) \in lanes
  BY <1>1
<1>3. \A k \in lanes : Result(K, r, i, IF i \in vec THEN k ELSE 0) \in Int
  BY <1>2, ResultType
<1> QED BY <1>3 DEF Results

LEMMA TouchedType ==
  ASSUME NEW K, NEW vec, NEW lanes, NEW r, NEW i, Before(K, lanes, r, i), K[i].op \in {"load", "store"}
  PROVE  /\ Touched(K, vec, lanes, r, i) \subseteq Places
         /\ \A c \in Touched(K, vec, lanes, r, i) : c[2] - r.env[K[i].idx][0] \in lanes
<1>1. 0 \in lanes /\ lanes \in SUBSET Int
  BY DEF Before
<1>2. r.env[K[i].idx][0] \in Int /\ K[i].arr \in Arrays
  BY OperandType
<1> DEFINE x == r.env[K[i].idx][0]
<1>3. ASSUME NEW c \in Touched(K, vec, lanes, r, i) PROVE c \in Places /\ c[2] - x \in lanes
  <2>1. PICK k \in lanes : c = <<K[i].arr, x + k>>
    BY <1>1, <1>3 DEF Touched, Cell
  <2>2. k \in Int /\ x \in Int /\ (x + k) - x = k
    BY <1>1, <1>2
  <2> HIDE DEF x
  <2> QED BY <1>2, <2>1, <2>2 DEF Places
<1> QED BY <1>3

LEMMA StoreType ==
  ASSUME NEW K, NEW vec, NEW lanes, NEW r, NEW i, Before(K, lanes, r, i), K[i].op = "store"
  PROVE  Store(K, vec, lanes, r, i) \in [Cells -> Int]
<1>1. r.mem \in [Cells -> Int]
  BY DEF Before, RunState
<1>2. \A k \in lanes : r.env[K[i].opnds[1]][k] \in Int
  BY OperandType, BinaryFacts
<1>3. \A c \in Touched(K, vec, lanes, r, i) : r.env[K[i].opnds[1]][c[2] - r.env[K[i].idx][0]] \in Int
  BY <1>2, TouchedType
<1> QED BY <1>1, <1>3 DEF Store

LEMMA StepFacts ==
  ASSUME NEW K, NEW vec, NEW lanes, NEW r, NEW i, Before(K, lanes, r, i), NEW s,
         s = Step(K, vec, lanes, r, i)
  PROVE  /\ s \in RunState(lanes) /\ Len(s.env) = i /\ s.base = r.base
         /\ \A v \in 1..(i - 1) : s.env[v] = r.env[v]
         /\ s.env[i] = Results(K, vec, lanes, r, i)
<1> DEFINE e == Results(K, vec, lanes, r, i)
<1>1. /\ r.base \in Int /\ r.mem \in [Cells -> Int] /\ r.env \in Seq([lanes -> Int])
      /\ r.read \in SUBSET Places /\ r.written \in SUBSET Places /\ Len(r.env) = i - 1 /\ i \in Nat
  BY OperandType DEF Before, RunState
<1>2. e \in [lanes -> Int]
  BY ResultsType
<1> HIDE DEF e
<1>3. /\ Append(r.env, e) \in Seq([lanes -> Int]) /\ Len(Append(r.env, e)) = i
      /\ \A v \in 1..(i - 1) : Append(r.env, e)[v] = r.env[v]
      /\ Append(r.env, e)[i] = e
  BY <1>1, <1>2, AppendFacts
<1>4. s.base = r.base /\ s.env = Append(r.env, e)
  BY DEF Step, e
<1>5. s.mem \in [Cells -> Int]
  BY <1>1, StoreType DEF Step
<1>6. s.read \in SUBSET Places /\ s.written \in SUBSET Places
  BY <1>1, TouchedType DEF Step
<1>7. s = [base |-> s.base, env |-> s.env, mem |-> s.mem, read |-> s.read, written |-> s.written]
  BY DEF Step
<1>8. s \in RunState(lanes)
  BY <1>1, <1>3, <1>4, <1>5, <1>6, <1>7 DEF RunState
<1> QED BY <1>3, <1>4, <1>8 DEF e
-----------------------------------------------------------------------------
(* A whole run: the states Q it goes through.                               *)
Sound(K, lanes, base, mem) ==
  /\ WellFormed(K) /\ lanes \in SUBSET Int /\ 0 \in lanes
  /\ base \in Int /\ mem \in [Cells -> Int]

GoesThrough(K, vec, lanes, base, mem, Q) ==
  Sound(K, lanes, base, mem) /\ Q = RunStates(K, vec, lanes, base, mem)

LEMMA RunTypes ==
  ASSUME NEW K, NEW vec, NEW lanes, NEW base, NEW mem, NEW Q,
         GoesThrough(K, vec, lanes, base, mem, Q)
  PROVE  /\ Len(K) \in Nat /\ DOMAIN K = 1..Len(K)
         /\ Q[0] = Begin(base, mem)
         /\ \A i \in 0..Len(K) : Q[i] \in RunState(lanes) /\ Len(Q[i].env) = i /\ Q[i].base = base
         /\ \A i \in 1..Len(K) : /\ Before(K, lanes, Q[i - 1], i)
                                 /\ Q[i] = Step(K, vec, lanes, Q[i - 1], i)
<1> DEFINE n == Len(K)
           S == {i \in 0..n : Q[i] \in RunState(lanes) /\ Len(Q[i].env) = i /\ Q[i].base = base}
<1>1. Sound(K, lanes, base, mem) /\ n \in Nat /\ DOMAIN K = 1..n
  BY KernelDomain DEF GoesThrough, Sound
<1>2. Q[0] = Begin(base, mem) /\ \A i \in 1..n : Q[i] = Step(K, vec, lanes, Q[i - 1], i)
  BY <1>1, RunFacts DEF GoesThrough
<1>3. 0 \in S
  <2>1. Begin(base, mem) \in RunState(lanes)
    BY <1>1 DEF Sound, Begin, RunState
  <2>2. Len(Begin(base, mem).env) = 0 /\ Begin(base, mem).base = base
    BY DEF Begin
  <2> QED BY <1>1, <1>2, <2>1, <2>2
<1> HIDE DEF n
<1>4. ASSUME NEW i \in 1..n, i - 1 \in S PROVE Before(K, lanes, Q[i - 1], i)
  BY <1>1, <1>4 DEF Before, Sound
<1>5. ASSUME NEW k \in 0..(n - 1), k \in S PROVE k + 1 \in S
  <2> DEFINE i == k + 1
  <2>1. i \in 1..n /\ i - 1 = k /\ i \in 0..n
    BY <1>1
  <2> HIDE DEF i
  <2>2. Before(K, lanes, Q[k], i) /\ Q[i] = Step(K, vec, lanes, Q[k], i)
    BY <1>2, <1>4, <1>5, <2>1
  <2>3. Q[i] \in RunState(lanes) /\ Len(Q[i].env) = i /\ Q[i].base = Q[k].base
    BY <2>2, StepFacts
  <2> QED BY <1>5, <2>1, <2>3 DEF i
<1>6. 0..n \subseteq S
  <2> HIDE DEF S
  <2>1. \A k \in 0..(n - 1) : k \in S => k + 1 \in S
    BY <1>5
  <2> QED BY <1>1, <1>3, <2>1, Upwards
<1>7. \A i \in 1..n : i - 1 \in S
  <2>1. \A i \in 1..n : i - 1 \in 0..n
    BY <1>1
  <2> QED BY <1>6, <2>1
<1>8. \A i \in 0..n : Q[i] \in RunState(lanes) /\ Len(Q[i].env) = i /\ Q[i].base = base
  BY <1>6
<1>9. \A i \in 1..n : Before(K, lanes, Q[i - 1], i)
  BY <1>4, <1>7
<1> QED BY <1>1, <1>2, <1>8, <1>9 DEF n

LEMMA RunKeeps ==
  ASSUME NEW K, NEW vec, NEW lanes, NEW base, NEW mem, NEW Q,
         GoesThrough(K, vec, lanes, base, mem, Q)
  PROVE  /\ \A v \in 1..Len(K) : \A i \in v..Len(K) :
              Q[i].env[v] = Results(K, vec, lanes, Q[v - 1], v)
         /\ \A i \in 0..Len(K) : /\ Q[i].read \subseteq Q[Len(K)].read
                                 /\ Q[i].written \subseteq Q[Len(K)].written
<1> DEFINE n == Len(K)
<1>1. /\ n \in Nat
      /\ \A i \in 1..n : Before(K, lanes, Q[i - 1], i) /\ Q[i] = Step(K, vec, lanes, Q[i - 1], i)
  BY RunTypes
<1> HIDE DEF n
<1>2. \A i \in 1..n : /\ \A v \in 1..(i - 1) : Q[i].env[v] = Q[i - 1].env[v]
                      /\ Q[i].env[i] = Results(K, vec, lanes, Q[i - 1], i)
                      /\ Q[i - 1].read \subseteq Q[i].read /\ Q[i - 1].written \subseteq Q[i].written
  <2> TAKE i \in 1..n
  <2>1. Before(K, lanes, Q[i - 1], i) /\ Q[i] = Step(K, vec, lanes, Q[i - 1], i)
    BY <1>1
  <2>2. Q[i - 1].read \subseteq Q[i].read /\ Q[i - 1].written \subseteq Q[i].written
    BY <2>1 DEF Step
  <2> QED BY <2>1, <2>2, StepFacts
<1> DEFINE S == {i \in 0..n : \A v \in 1..i : Q[i].env[v] = Results(K, vec, lanes, Q[v - 1], v)}
<1>3. 0..n \subseteq S
  <2>1. 0 \in S
    BY <1>1
  <2>2. ASSUME NEW k \in 0..(n - 1), k \in S PROVE k + 1 \in S
    <3>1. k + 1 \in 1..n /\ (k + 1) - 1 = k /\ k + 1 \in 0..n
      BY <1>1
    <3>2. /\ \A v \in 1..k : Q[k + 1].env[v] = Q[k].env[v]
          /\ Q[k + 1].env[k + 1] = Results(K, vec, lanes, Q[k], k + 1)
      BY <1>2, <3>1
    <3>3. \A v \in 1..(k + 1) : v = k + 1 \/ v \in 1..k
      BY <1>1
    <3> QED BY <2>2, <3>1, <3>2, <3>3
  <2> HIDE DEF S
  <2>3. \A k \in 0..(n - 1) : k \in S => k + 1 \in S
    BY <2>2
  <2> QED BY <1>1, <2>1, <2>3, Upwards
<1>4. \A v \in 1..n : \A i \in v..n : Q[i].env[v] = Results(K, vec, lanes, Q[v - 1], v)
  <2>1. \A v \in 1..n : \A i \in v..n : i \in 0..n /\ v \in 1..i
    BY <1>1
  <2> QED BY <1>3, <2>1
<1> HIDE DEF S
<1> DEFINE M == {i \in 0..n : \A j \in 0..i : Q[j].read \subseteq Q[i].read
                                             /\ Q[j].written \subseteq Q[i].written}
<1>5. 0..n \subseteq M
  <2>1. 0 \in M
    BY <1>1
  <2>2. ASSUME NEW k \in 0..(n - 1), k \in M PROVE k + 1 \in M
    <3>1. k + 1 \in 1..n /\ (k + 1) - 1 = k /\ k + 1 \in 0..n
      BY <1>1
    <3>2. Q[k].read \subseteq Q[k + 1].read /\ Q[k].written \subseteq Q[k + 1].written
      BY <1>2, <3>1
    <3>3. \A j \in 0..(k + 1) : j = k + 1 \/ j \in 0..k
      BY <1>1
    <3> QED BY <2>2, <3>1, <3>2, <3>3
  <2> HIDE DEF M
  <2>3. \A k \in 0..(n - 1) : k \in M => k + 1 \in M
    BY <2>2
  <2> QED BY <1>1, <2>1, <2>3, Upwards
<1>6. \A i \in 0..n : Q[i].read \subseteq Q[n].read /\ Q[i].written \subseteq Q[n].written
  <2>1. n \in 0..n
    BY <1>1
  <2> QED BY <1>5, <2>1
<1> QED BY <1>4, <1>6 DEF n
-----------------------------------------------------------------------------
(* What an instruction yields, from the values L of the finished run and    *)
(* the memory it meets.                                                     *)
Yield(K, L, mem, i, k) ==
  CASE K[i].op = "call" -> L.base
    [] K[i].op = "arg" -> 1
    [] K[i].op = "load" -> IF Cell(K, L, i, k) \in DOMAIN mem THEN mem[Cell(K, L, i, k)] ELSE 0
    [] K[i].op = "store" -> 0
    [] K[i].op \in Binary -> Apply(K[i].op, L.env[K[i].opnds[1]][k], L.env[K[i].opnds[2]][k])
    [] OTHER -> L.env[K[i].opnds[1]][k]

LEMMA RunStep ==
  ASSUME NEW K, NEW vec, NEW lanes, NEW base, NEW mem, NEW Q,
         GoesThrough(K, vec, lanes, base, mem, Q), NEW i \in 1..Len(K), NEW L, L = Q[Len(K)]
  PROVE  /\ Reached(K, Q[i - 1], i) <=> Reached(K, L, i)
         /\ K[i].op \in {"load", "store"} =>
              /\ \A k : Cell(K, Q[i - 1], i, k) = Cell(K, L, i, k)
              /\ Q[i - 1].env[K[i].idx] = L.env[K[i].idx]
         /\ \A o \in DOMAIN K[i].opnds : Q[i - 1].env[K[i].opnds[o]] = L.env[K[i].opnds[o]]
         /\ \A k \in lanes :
              L.env[i][k] = IF Reached(K, L, i)
                            THEN Yield(K, L, Q[i - 1].mem, i, IF i \in vec THEN k ELSE 0) ELSE 0
<1> DEFINE n == Len(K)
           r == Q[i - 1]
<1>1. /\ n \in Nat /\ i \in 1..n /\ L = Q[n] /\ WellFormed(K) /\ DOMAIN K = 1..n
      /\ \A j \in 0..n : Q[j].base = base
      /\ Before(K, lanes, r, i)
  <2>1. WellFormed(K)
    BY DEF GoesThrough, Sound
  <2> QED BY <2>1, RunTypes
<1>2. \A v \in 1..n : \A j \in v..n : Q[j].env[v] = Results(K, vec, lanes, Q[v - 1], v)
  BY RunKeeps
<1> HIDE DEF n
<1>3. ASSUME NEW v \in 1..(i - 1) PROVE r.env[v] = L.env[v]
  <2>1. v \in 1..n /\ i - 1 \in v..n /\ n \in v..n
    BY <1>1
  <2> QED BY <1>1, <1>2, <2>1
<1>4. L.env[i] = Results(K, vec, lanes, r, i)
  <2>1. n \in i..n
    BY <1>1
  <2> QED BY <1>1, <1>2, <2>1
<1>5. r.base = L.base
  <2>1. i - 1 \in 0..n /\ n \in 0..n
    BY <1>1
  <2> QED BY <1>1, <2>1
<1>6. Fits(K, i) /\ K[i].op \in Opcodes
  BY <1>1, KernelDomain DEF WellFormed, Instruction
<1> HIDE DEF r
<1>7. Reached(K, r, i) <=> Reached(K, L, i)
  BY <1>3, <1>6 DEF Reached, Fits
<1>8. K[i].op \in {"load", "store"} =>
        (\A k : Cell(K, r, i, k) = Cell(K, L, i, k)) /\ r.env[K[i].idx] = L.env[K[i].idx]
  BY <1>3, <1>6 DEF Cell, Fits
<1>9. \A o \in DOMAIN K[i].opnds : r.env[K[i].opnds[o]] = L.env[K[i].opnds[o]]
  BY <1>3, <1>6 DEF Fits
<1>10. \A k : Result(K, r, i, k) = Yield(K, L, r.mem, i, k)
  <2>1. /\ K[i].op \in Binary => DOMAIN K[i].opnds = {1, 2}
        /\ K[i].op \notin {"call", "arg", "load"} \cup Binary => DOMAIN K[i].opnds = {1}
    BY <1>6 DEF Fits, Opcodes
  <2>2. /\ K[i].op \in Binary => /\ r.env[K[i].opnds[1]] = L.env[K[i].opnds[1]]
                                 /\ r.env[K[i].opnds[2]] = L.env[K[i].opnds[2]]
        /\ K[i].op \notin {"call", "arg", "load"} \cup Binary =>
             r.env[K[i].opnds[1]] = L.env[K[i].opnds[1]]
    BY <1>9, <2>1
  <2> TAKE k
  <2>3. CASE K[i].op \in {"call", "arg", "store"}
    BY <1>5, <2>3, BinaryFacts DEF Result, Yield
  <2>4. CASE K[i].op = "load"
    BY <1>8, <2>4, BinaryFacts DEF Result, Yield, Load
  <2>5. CASE K[i].op \in Binary
    BY <2>2, <2>5, BinaryFacts DEF Result, Yield
  <2>6. CASE K[i].op \notin {"call", "arg", "load", "store"} \cup Binary
    BY <2>2, <2>6 DEF Result, Yield
  <2> QED BY <2>3, <2>4, <2>5, <2>6
<1>11. 0 \in lanes
  BY <1>1 DEF Before
<1>12. ASSUME NEW k \in lanes
       PROVE  L.env[i][k] = IF Reached(K, L, i)
                            THEN Yield(K, L, r.mem, i, IF i \in vec THEN k ELSE 0) ELSE 0
  BY <1>4, <1>7, <1>10 DEF Results
<1> QED BY <1>7, <1>8, <1>9, <1>12 DEF r

(* The memory and what was written, before and after an instruction.        *)
MemoryStep(K, vec, lanes, Q, i, L) ==
  /\ K[i].op = "store" /\ Reached(K, L, i) =>
       /\ Q[i].mem \in [Cells -> Int]
       /\ \A c \in Cells :
            Q[i].mem[c] = IF c \in Touched(K, vec, lanes, L, i)
                          THEN L.env[K[i].opnds[1]][c[2] - L.env[K[i].idx][0]]
                          ELSE Q[i - 1].mem[c]
       /\ Q[i].written = Q[i - 1].written \cup Touched(K, vec, lanes, L, i)
  /\ ~(K[i].op = "store" /\ Reached(K, L, i)) =>
       Q[i].mem = Q[i - 1].mem /\ Q[i].written = Q[i - 1].written
  /\ K[i].op = "load" /\ Reached(K, L, i) => Touched(K, vec, lanes, L, i) \subseteq L.read

LEMMA RunMemory ==
  ASSUME NEW K, NEW vec, NEW lanes, NEW base, NEW mem, NEW Q,
         GoesThrough(K, vec, lanes, base, mem, Q), NEW i \in 1..Len(K)
  PROVE  MemoryStep(K, vec, lanes, Q, i, Q[Len(K)])
<1> DEFINE L == Q[Len(K)]
<1> DEFINE r == Q[i - 1]
<1>1. /\ Reached(K, r, i) <=> Reached(K, L, i)
      /\ K[i].op \in {"load", "store"} =>
           (\A k : Cell(K, r, i, k) = Cell(K, L, i, k)) /\ r.env[K[i].idx] = L.env[K[i].idx]
      /\ \A o \in DOMAIN K[i].opnds : r.env[K[i].opnds[o]] = L.env[K[i].opnds[o]]
  BY RunStep
<1>2. /\ Before(K, lanes, r, i) /\ Q[i] = Step(K, vec, lanes, r, i)
      /\ Len(K) \in Nat
      /\ Q[i].read \subseteq L.read
  <2>1. Len(K) \in Nat /\ Before(K, lanes, r, i) /\ Q[i] = Step(K, vec, lanes, r, i)
    BY RunTypes
  <2>2. i \in 0..Len(K)
    BY <2>1
  <2> QED BY <2>1, <2>2, RunKeeps
<1> HIDE DEF r
<1>3. K[i].op \in {"load", "store"} => Touched(K, vec, lanes, r, i) = Touched(K, vec, lanes, L, i)
  BY <1>1 DEF Touched
<1>4. r.mem \in [Cells -> Int]
  BY <1>2 DEF Before, RunState
<1>5. ASSUME K[i].op = "store", Reached(K, L, i)
      PROVE  /\ Q[i].mem \in [Cells -> Int]
             /\ \A c \in Cells :
                  Q[i].mem[c] = IF c \in Touched(K, vec, lanes, L, i)
                                THEN L.env[K[i].opnds[1]][c[2] - L.env[K[i].idx][0]] ELSE r.mem[c]
             /\ Q[i].written = r.written \cup Touched(K, vec, lanes, L, i)
  <2>1. /\ Q[i].mem = Store(K, vec, lanes, r, i)
        /\ Q[i].written = r.written \cup Touched(K, vec, lanes, r, i)
    BY <1>1, <1>2, <1>5 DEF Step
  <2>2. r.env[K[i].opnds[1]] = L.env[K[i].opnds[1]]
    <3>1. 1 \in DOMAIN K[i].opnds
      BY <1>2, <1>5 DEF Before, WellFormed, Fits
    <3> QED BY <1>1, <3>1
  <2>3. r.env[K[i].idx][0] = L.env[K[i].idx][0]
    BY <1>1, <1>5
  <2>4. Q[i].mem \in [Cells -> Int]
    BY <1>2, <1>5, <2>1, StoreType
  <2> QED BY <1>3, <1>4, <1>5, <2>1, <2>2, <2>3, <2>4 DEF Store
<1>6. ASSUME ~(K[i].op = "store" /\ Reached(K, L, i))
      PROVE  Q[i].mem = r.mem /\ Q[i].written = r.written
  BY <1>1, <1>2, <1>6 DEF Step
<1>7. ASSUME K[i].op = "load", Reached(K, L, i)
      PROVE  Touched(K, vec, lanes, L, i) \subseteq L.read
  BY <1>1, <1>2, <1>3, <1>7 DEF Step
<1> QED BY <1>5, <1>6, <1>7 DEF r, MemoryStep

LEMMA RunUnwritten ==
  ASSUME NEW K, NEW vec, NEW lanes, NEW base, NEW mem, NEW Q,
         GoesThrough(K, vec, lanes, base, mem, Q)
  PROVE  \A i \in 0..Len(K) : \A c \in Cells : c \notin Q[i].written => Q[i].mem[c] = mem[c]
<1> DEFINE n == Len(K)
           S == {i \in 0..n : \A c \in Cells : c \notin Q[i].written => Q[i].mem[c] = mem[c]}
<1>1. n \in Nat
  BY RunTypes
<1>2. 0 \in S
  <2>1. Q[0] = Begin(base, mem)
    BY RunTypes
  <2> QED BY <1>1, <2>1 DEF Begin
<1>3. ASSUME NEW k \in 0..(n - 1), k \in S PROVE k + 1 \in S
  <2> DEFINE i == k + 1
             L == Q[n]
  <2>1. i \in 1..n /\ i - 1 = k /\ i \in 0..n
    BY <1>1
  <2>2. /\ K[i].op = "store" /\ Reached(K, L, i) =>
             /\ \A c \in Cells :
                  Q[i].mem[c] = IF c \in Touched(K, vec, lanes, L, i)
                                THEN L.env[K[i].opnds[1]][c[2] - L.env[K[i].idx][0]]
                                ELSE Q[k].mem[c]
             /\ Q[i].written = Q[k].written \cup Touched(K, vec, lanes, L, i)
        /\ ~(K[i].op = "store" /\ Reached(K, L, i)) =>
             Q[i].mem = Q[k].mem /\ Q[i].written = Q[k].written
    <3> HIDE DEF i
    <3>1. i \in 1..Len(K) /\ i - 1 = k
      BY <2>1
    <3>2. MemoryStep(K, vec, lanes, Q, i, L)
      BY <3>1, RunMemory
    <3> HIDE DEF L
    <3> QED BY <3>1, <3>2 DEF MemoryStep
  <2>3. \A c \in Cells : c \notin Q[k].written => Q[k].mem[c] = mem[c]
    BY <1>3
  <2> HIDE DEF L, i
  <2>4. CASE K[i].op = "store" /\ Reached(K, L, i)
    BY <2>1, <2>2, <2>3, <2>4 DEF i
  <2>5. CASE ~(K[i].op = "store" /\ Reached(K, L, i))
    BY <2>1, <2>2, <2>3, <2>5 DEF i
  <2> QED BY <2>4, <2>5
<1>4. 0..n \subseteq S
  <2> HIDE DEF S, n
  <2>1. \A k \in 0..(n - 1) : k \in S => k + 1 \in S
    BY <1>3
  <2> QED BY <1>1, <1>2, <2>1, Upwards
<1> QED BY <1>4
-----------------------------------------------------------------------------
(* The run of one work item over the memory of the beginning.               *)
ItemRun(K, t) == RunStates(K, {}, {0}, FirstId + t, Memory)

Item(K, t) == ItemRun(K, t)[Len(K)]

LEMMA ItemGoes ==
  ASSUME NEW K, WellFormed(K), NEW t \in Int
  PROVE  GoesThrough(K, {}, {0}, FirstId + t, Memory, ItemRun(K, t))
<1>1. Sound(K, {0}, FirstId + t, Memory)
  BY MemoryType DEF Sound, FirstId
<1> QED BY <1>1 DEF GoesThrough, ItemRun

LEMMA ItemFacts ==
  ASSUME NEW K, WellFormed(K), NEW t \in Int
  PROVE  /\ Item(K, t).base = FirstId + t
         /\ \A v \in DOMAIN K :
              /\ Item(K, t).env[v][0] \in Int
              /\ Item(K, t).env[v][0] = IF Reached(K, Item(K, t), v)
                                        THEN Yield(K, Item(K, t), ItemRun(K, t)[v - 1].mem, v, 0)
                                        ELSE 0
<1> DEFINE Q == ItemRun(K, t)
           n == Len(K)
           L == Q[n]
<1>1. GoesThrough(K, {}, {0}, FirstId + t, Memory, Q)
  BY ItemGoes
<1> HIDE DEF Q
<1>2. /\ n \in Nat /\ DOMAIN K = 1..n
      /\ \A i \in 0..n : Q[i] \in RunState({0}) /\ Len(Q[i].env) = i /\ Q[i].base = FirstId + t
  BY <1>1, RunTypes
<1>3. L \in RunState({0}) /\ Len(L.env) = n /\ L.base = FirstId + t
  <2> HIDE DEF n
  <2> QED BY <1>2
<1>4. ASSUME NEW v \in DOMAIN K
      PROVE  /\ L.env[v][0] \in Int
             /\ L.env[v][0] = IF Reached(K, L, v) THEN Yield(K, L, Q[v - 1].mem, v, 0) ELSE 0
  <2>1. v \in 1..n /\ v \in 1..Len(L.env) /\ 0 \in {0}
    BY <1>2, <1>3
  <2>2. L.env[v][0] \in Int
    <3> HIDE DEF L
    <3> QED BY <1>3, <2>1, EnvType
  <2>3. L.env[v][0] = IF Reached(K, L, v) THEN Yield(K, L, Q[v - 1].mem, v, 0) ELSE 0
    <3> DEFINE A == {0}
               V == {}
    <3>1. GoesThrough(K, V, A, FirstId + t, Memory, Q) /\ v \in 1..Len(K) /\ L = Q[Len(K)]
      BY <1>1, <2>1
    <3>2. 0 \in A /\ v \notin V
      OBVIOUS
    <3> HIDE DEF A, V, L
    <3>3. \A k \in A : L.env[v][k] = IF Reached(K, L, v)
                              THEN Yield(K, L, Q[v - 1].mem, v, IF v \in V THEN k ELSE 0) ELSE 0
      BY <3>1, RunStep
    <3> QED BY <3>2, <3>3
  <2> QED BY <2>2, <2>3
<1> QED BY <1>3, <1>4 DEF Item, Q

LEMMA ItemStart ==
  ASSUME NEW K, WellFormed(K), NEW t \in Int
  PROVE  /\ ItemRun(K, t)[0].mem = Memory /\ ItemRun(K, t)[0].written = {}
         /\ Item(K, t).read \subseteq Places /\ Item(K, t).written \subseteq Places
         /\ \A i \in 0..Len(K) :
              /\ ItemRun(K, t)[i].mem \in [Cells -> Int]
              /\ ItemRun(K, t)[i].written \subseteq Item(K, t).written
              /\ \A c \in Cells : c \notin ItemRun(K, t)[i].written => ItemRun(K, t)[i].mem[c] = Memory[c]
<1> DEFINE Q == ItemRun(K, t)
           n == Len(K)
           A == {0}
           V == {}
           b == FirstId + t
<1>1. GoesThrough(K, V, A, b, Memory, Q)
  BY ItemGoes
<1> HIDE DEF Q, A, V, b
<1>2. /\ n \in Nat /\ Q[0] = Begin(b, Memory)
      /\ \A i \in 0..n : Q[i] \in RunState(A)
  BY <1>1, RunTypes
<1>3. \A i \in 0..n : Q[i].written \subseteq Q[n].written
  BY <1>1, RunKeeps
<1>4. \A i \in 0..n : \A c \in Cells : c \notin Q[i].written => Q[i].mem[c] = Memory[c]
  BY <1>1, RunUnwritten
<1>5. n \in 0..n
  BY <1>2
<1> HIDE DEF n
<1>6. Q[0].mem = Memory /\ Q[0].written = {}
  BY <1>2 DEF Begin
<1>7. \A i \in 0..n : Q[i].mem \in [Cells -> Int]
  BY <1>2 DEF RunState
<1>8. Q[n].read \subseteq Places /\ Q[n].written \subseteq Places
  BY <1>2, <1>5 DEF RunState
<1> QED BY <1>3, <1>4, <1>6, <1>7, <1>8 DEF Item, Q, n

LEMMA ItemMemory ==
  ASSUME NEW K, WellFormed(K), NEW t \in Int, NEW v \in DOMAIN K, NEW L, L = Item(K, t),
         NEW Q, Q = ItemRun(K, t)
  PROVE  /\ K[v].op = "load" /\ Reached(K, L, v) => Cell(K, L, v, 0) \in L.read
         /\ K[v].op = "store" /\ Reached(K, L, v) =>
              /\ Cell(K, L, v, 0) \in L.written
              /\ Q[v].written = Q[v - 1].written \cup {Cell(K, L, v, 0)}
              /\ \A c \in Cells : Q[v].mem[c] = IF c = Cell(K, L, v, 0)
                                                THEN L.env[K[v].opnds[1]][0] ELSE Q[v - 1].mem[c]
         /\ ~(K[v].op = "store" /\ Reached(K, L, v)) =>
              Q[v].mem = Q[v - 1].mem /\ Q[v].written = Q[v - 1].written
<1> DEFINE A == {0}
           V == {}
           b == FirstId + t
           T == Touched(K, V, A, L, v)
<1>1. GoesThrough(K, V, A, b, Memory, Q)
  BY ItemGoes
<1>2. v \in 1..Len(K) /\ Len(K) \in Nat /\ L = Q[Len(K)]
  BY KernelDomain DEF Item
<1>3. T = {Cell(K, L, v, 0)}
  BY DEF Touched
<1>4. \A c \in T : c[2] = L.env[K[v].idx][0] + 0
  BY <1>3 DEF Cell
<1> HIDE DEF A, V, b
<1>5. /\ K[v].op = "store" /\ Reached(K, L, v) =>
           /\ \A c \in Cells : Q[v].mem[c] = IF c \in T
                                             THEN L.env[K[v].opnds[1]][c[2] - L.env[K[v].idx][0]]
                                             ELSE Q[v - 1].mem[c]
           /\ Q[v].written = Q[v - 1].written \cup T
      /\ ~(K[v].op = "store" /\ Reached(K, L, v)) =>
           Q[v].mem = Q[v - 1].mem /\ Q[v].written = Q[v - 1].written
      /\ K[v].op = "load" /\ Reached(K, L, v) => T \subseteq L.read
  <2>1. MemoryStep(K, V, A, Q, v, Q[Len(K)])
    BY <1>1, <1>2, RunMemory
  <2> QED BY <1>2, <2>1 DEF MemoryStep
<1> HIDE DEF T
<1>6. Q[v].written \subseteq L.written
  <2>1. v \in 0..Len(K)
    BY <1>2
  <2> QED BY <1>1, <1>2, <2>1, RunKeeps
<1>7. K[v].op = "store" => \A c \in T : c[2] - L.env[K[v].idx][0] = 0
  <2>1. K[v].op = "store" => L.env[K[v].idx][0] \in Int
    <3>1. K[v].op = "store" => K[v].idx \in DOMAIN K
      BY KernelDomain DEF WellFormed, Fits
    <3> QED BY <3>1, ItemFacts
  <2> QED BY <1>4, <2>1
<1>8. ASSUME K[v].op = "store", Reached(K, L, v)
      PROVE  /\ Cell(K, L, v, 0) \in L.written
             /\ Q[v].written = Q[v - 1].written \cup {Cell(K, L, v, 0)}
             /\ \A c \in Cells : Q[v].mem[c] = IF c = Cell(K, L, v, 0)
                                               THEN L.env[K[v].opnds[1]][0] ELSE Q[v - 1].mem[c]
  BY <1>3, <1>5, <1>6, <1>7, <1>8
<1> QED BY <1>3, <1>5, <1>8

-----------------------------------------------------------------------------
(* Strides.                                                                 *)
LEMMA StrideOfBelow ==
  ASSUME NEW K, WellFormed(K), NEW v \in DOMAIN K, NEW f, NEW g, \A w \in 1..(v - 1) : f[w] = g[w]
  PROVE  StrideOf(K, f, v) = StrideOf(K, g, v)
<1>1. Fits(K, v)
  BY DEF WellFormed
<1>2. [o \in DOMAIN K[v].opnds |-> f[K[v].opnds[o]]] = [o \in DOMAIN K[v].opnds |-> g[K[v].opnds[o]]]
  BY <1>1 DEF Fits
<1>3. K[v].op = "load" => f[K[v].idx] = g[K[v].idx]
  BY <1>1 DEF Fits
<1> QED BY <1>2, <1>3 DEF StrideOf

LEMMA StrideOfType ==
  ASSUME NEW K, WellFormed(K), NEW v \in DOMAIN K, NEW f \in [DOMAIN K -> {0, 1, 2}]
  PROVE  StrideOf(K, f, v) \in {0, 1, 2}
<1>1. Fits(K, v)
  BY DEF WellFormed
<1>2. K[v].op = "cast" => 1 \in DOMAIN K[v].opnds /\ K[v].opnds[1] \in 1..(v - 1)
  BY <1>1 DEF Fits
<1>3. K[v].op = "cast" => f[K[v].opnds[1]] \in {0, 1, 2}
  <2>1. \A w \in 1..(v - 1) : w \in DOMAIN K
    BY KernelDomain
  <2> QED BY <1>2, <2>1
<1>4. CASE K[v].op = "cast"
  BY <1>2, <1>3, <1>4 DEF StrideOf
<1>5. CASE K[v].op \in {"Add", "Sub"}
  BY <1>5 DEF StrideOf
<1>6. CASE K[v].op \notin {"cast", "Add", "Sub"}
  BY <1>6 DEF StrideOf
<1> QED BY <1>4, <1>5, <1>6

LEMMA StridesFacts ==
  ASSUME NEW K, WellFormed(K)
  PROVE  /\ Strides(K) \in [DOMAIN K -> {0, 1, 2}]
         /\ \A v \in DOMAIN K : Strides(K)[v] = StrideOf(K, Strides(K), v)
<1> DEFINE n == Len(K)
           R == {0, 1, 2}
           G == [v \in 1..n |-> [f \in [1..n -> R] |-> StrideOf(K, f, v)]]
           P(f) == f = [v \in DOMAIN K |-> StrideOf(K, f, v)]
           C == CHOOSE f : P(f)
<1>1. n \in Nat /\ DOMAIN K = 1..n
  BY KernelDomain
<1>2. Strides(K) = C
  BY DEF Strides
<1> HIDE DEF n
<1>3. \E f : P(f)
  <2>1. IsScheme(n, R, G)
    BY <1>1, StrideOfType DEF IsScheme
  <2>2. \A v \in 1..n : \A f \in [1..n -> R] : G[v][f] = StrideOf(K, f, v)
    OBVIOUS
  <2> HIDE DEF G, R
  <2>3. LooksBelow(n, R, G)
    <3> USE DEF LooksBelow
    <3> TAKE v \in 1..n
    <3> TAKE f, g \in [1..n -> R]
    <3> HAVE \A w \in 1..(v - 1) : f[w] = g[w]
    <3>1. StrideOf(K, f, v) = StrideOf(K, g, v)
      BY <1>1, StrideOfBelow
    <3> QED BY <2>2, <3>1
  <2>4. PICK f : Solves(n, R, G, f)
    <3>1. 0 \in R
      BY DEF R
    <3> QED BY <2>1, <2>3, <3>1, RecursiveFromBelow
  <2>5. f = [v \in 1..n |-> StrideOf(K, f, v)]
    BY <2>2, <2>4 DEF Solves
  <2> QED BY <1>1, <2>5
<1> HIDE DEF P
<1>4. P(C)
  BY <1>3
<1> HIDE DEF C
<1>5. \A v \in DOMAIN K : C[v] = StrideOf(K, C, v)
  BY <1>4 DEF P
<1>6. C \in [DOMAIN K -> {0, 1, 2}]
  <2> DEFINE S == {v \in 1..n : C[v] \in R}
  <2>1. ASSUME NEW v \in 1..n, 1..(v - 1) \subseteq S PROVE v \in S
    <3> DEFINE g == [w \in 1..n |-> IF w \in 1..(v - 1) THEN C[w] ELSE 0]
    <3>1. g \in [DOMAIN K -> {0, 1, 2}] /\ \A w \in 1..(v - 1) : g[w] = C[w]
      BY <1>1, <2>1
    <3> HIDE DEF g
    <3>2. StrideOf(K, g, v) = StrideOf(K, C, v)
      BY <1>1, <3>1, StrideOfBelow
    <3>3. StrideOf(K, g, v) \in {0, 1, 2}
      BY <1>1, <3>1, StrideOfType
    <3> QED BY <1>1, <1>5, <3>2, <3>3
  <2>2. 1..n \subseteq S
    <3> HIDE DEF S
    <3> QED BY <1>1, <2>1, Below
  <2>3. C = [v \in DOMAIN K |-> C[v]]
    BY <1>4 DEF P
  <2> QED BY <1>1, <2>2, <2>3
<1> QED BY <1>2, <1>5, <1>6

(* Two items that do not touch what the other one writes.                   *)
Apart(K, t, u) ==
  /\ Item(K, t).written \cap Item(K, u).read = {}
  /\ Item(K, u).written \cap Item(K, t).read = {}

UniformBlocks(K) == \A i \in DOMAIN K : K[i].block # 0 => Strides(K)[K[i].block] = 0

Follows(K, t, u, v) ==
  /\ Reached(K, Item(K, t), v) <=> Reached(K, Item(K, u), v)
  /\ Reached(K, Item(K, t), v) =>
       /\ Strides(K)[v] = 0 => Item(K, u).env[v][0] = Item(K, t).env[v][0]
       /\ Strides(K)[v] = 1 => Item(K, u).env[v][0] = Item(K, t).env[v][0] + (u - t)

(* Operands are reached where what uses them is.                            *)
LEMMA OperandReached ==
  ASSUME NEW K, NEW L, NEW v, NEW w, Reached(K, L, v), Usable(K, w, K[v].block)
  PROVE  Reached(K, L, w)
BY DEF Reached, Usable

LEMMA OpcodeCases ==
  ASSUME NEW K, WellFormed(K), NEW v \in DOMAIN K
  PROVE  /\ K[v].op \in {"call", "arg", "load", "store", "FNeg", "cast"} \cup Binary
         /\ K[v].op \in Arithmetic => K[v].op \in Binary
         /\ K[v].op \in {"Add", "Sub"} => K[v].op \in Binary
         /\ K[v].op \in Binary => 1 \in DOMAIN K[v].opnds /\ 2 \in DOMAIN K[v].opnds
         /\ K[v].op \in {"store", "FNeg", "cast"} => 1 \in DOMAIN K[v].opnds
<1>1. K[v].op \in Opcodes /\ Fits(K, v)
  BY KernelDomain DEF WellFormed, Instruction
<1> QED BY <1>1, BinaryFacts DEF Opcodes, Fits

LEMMA FollowsStep ==
  ASSUME NEW K, WellFormed(K), UniformBlocks(K), NEW t \in Int, NEW u \in Int, Apart(K, t, u),
         NEW v \in DOMAIN K, \A w \in 1..(v - 1) : Follows(K, t, u, w)
  PROVE  Follows(K, t, u, v)
<1> DEFINE L == Item(K, t)
           M == Item(K, u)
           x == [w \in DOMAIN K |-> L.env[w][0]]
           y == [w \in DOMAIN K |-> M.env[w][0]]
           s == Strides(K)
           I == K[v]
           Same(w) == /\ s[w] = 0 => y[w] = x[w]
                      /\ s[w] = 1 => y[w] = x[w] + (u - t)
<1>1. Fits(K, v) /\ v \in 1..Len(K) /\ Len(K) \in Nat /\ DOMAIN K = 1..Len(K)
  BY KernelDomain DEF WellFormed
<1>2. \A w \in 1..(v - 1) : w \in DOMAIN K
  BY <1>1
<1>3. Reached(K, L, v) <=> Reached(K, M, v)
  <2>1. CASE I.block = 0
    BY <2>1 DEF Reached
  <2>2. CASE I.block # 0
    <3>1. I.block \in 1..(v - 1) /\ K[I.block].block = 0 /\ s[I.block] = 0
      BY <1>1, <2>2 DEF Fits, UniformBlocks
    <3>2. Reached(K, L, I.block)
      BY <3>1 DEF Reached
    <3>3. M.env[I.block][0] = L.env[I.block][0]
      BY <3>1, <3>2 DEF Follows
    <3> QED BY <3>3 DEF Reached
  <2> QED BY <2>1, <2>2
<1>4. ASSUME Reached(K, L, v) PROVE Same(v)
  <2>1. \A o \in DOMAIN I.opnds : I.opnds[o] \in DOMAIN K /\ Same(I.opnds[o])
    <3> TAKE o \in DOMAIN I.opnds
    <3>1. I.opnds[o] \in 1..(v - 1) /\ Usable(K, I.opnds[o], I.block)
      BY <1>1 DEF Fits
    <3>2. Reached(K, L, I.opnds[o])
      BY <1>4, <3>1, OperandReached
    <3> QED BY <1>2, <3>1, <3>2 DEF Follows
  <2>2. I.op = "load" => I.idx \in DOMAIN K /\ Same(I.idx)
    <3> HAVE I.op = "load"
    <3>1. I.idx \in 1..(v - 1) /\ Usable(K, I.idx, I.block)
      BY <1>1 DEF Fits
    <3>2. Reached(K, L, I.idx)
      BY <1>4, <3>1, OperandReached
    <3> QED BY <1>2, <3>1, <3>2 DEF Follows
  <2> DEFINE p == ItemRun(K, t)[v - 1].mem
             q == ItemRun(K, u)[v - 1].mem
  <2>3. x[v] = Yield(K, L, p, v, 0) /\ y[v] = Yield(K, M, q, v, 0)
    BY <1>3, <1>4, ItemFacts
  <2>4. s[v] = StrideOf(K, s, v) /\ s \in [DOMAIN K -> {0, 1, 2}]
    BY StridesFacts
  <2>5. \A w \in DOMAIN K : x[w] = L.env[w][0] /\ y[w] = M.env[w][0] /\ x[w] \in Int /\ y[w] \in Int
    BY ItemFacts
  <2>6. L.base = FirstId + t /\ M.base = FirstId + u
    BY ItemFacts
  <2> HIDE DEF x, y, s
  <2>7. CASE I.op = "call"
    <3>1. x[v] = FirstId + t /\ y[v] = FirstId + u /\ s[v] = 1
      BY <2>3, <2>4, <2>6, <2>7, BinaryFacts DEF Yield, StrideOf
    <3> QED BY <3>1 DEF FirstId
  <2>8. CASE I.op = "arg"
    <3>1. x[v] = 1 /\ y[v] = 1 /\ s[v] = 0
      BY <2>3, <2>4, <2>8, BinaryFacts DEF Yield, StrideOf
    <3> QED BY <3>1
  <2>9. CASE I.op = "load"
    <3>1. s[v] = IF s[I.idx] = 0 THEN 0 ELSE 2
      BY <2>4, <2>9 DEF StrideOf
    <3>2. CASE s[I.idx] # 0
      BY <3>1, <3>2
    <3>3. CASE s[I.idx] = 0
      <4> DEFINE c == Cell(K, L, v, 0)
      <4>1. Cell(K, M, v, 0) = c
        BY <2>2, <2>5, <2>9, <3>3 DEF Cell
      <4>2. c \in L.read /\ c \in M.read
        BY <1>3, <1>4, <2>9, <4>1, ItemMemory
      <4>3. c \notin L.written /\ c \notin M.written
        BY <4>2 DEF Apart
      <4>4. c \in Cells => p[c] = Memory[c] /\ q[c] = Memory[c]
        <5>1. v - 1 \in 0..Len(K)
          BY <1>1
        <5>2. c \in Cells => p[c] = Memory[c]
          BY <4>3, <5>1, ItemStart
        <5>3. c \in Cells => q[c] = Memory[c]
          BY <4>3, <5>1, ItemStart
        <5> QED BY <5>2, <5>3
      <4>5. DOMAIN p = Cells /\ DOMAIN q = Cells
        <5>1. v - 1 \in 0..Len(K)
          BY <1>1
        <5>2. p \in [Cells -> Int] /\ q \in [Cells -> Int]
          BY <5>1, ItemStart
        <5> QED BY <5>2
      <4>6. /\ x[v] = IF c \in DOMAIN p THEN p[c] ELSE 0
            /\ y[v] = IF c \in DOMAIN q THEN q[c] ELSE 0
        BY <2>3, <2>9, <4>1, BinaryFacts DEF Yield
      <4> QED BY <3>1, <3>3, <4>4, <4>5, <4>6
    <3> QED BY <3>2, <3>3
  <2>10. CASE I.op = "store"
    <3>1. x[v] = 0 /\ y[v] = 0
      BY <2>3, <2>10, BinaryFacts DEF Yield
    <3>2. s[v] # 1
      BY <2>4, <2>10 DEF StrideOf
    <3> QED BY <3>1, <3>2
  <2>11. CASE I.op = "cast"
    <3>1. 1 \in DOMAIN I.opnds
      BY <2>11, OpcodeCases
    <3>2. x[v] = x[I.opnds[1]] /\ y[v] = y[I.opnds[1]]
      BY <2>1, <2>3, <2>5, <2>11, <3>1, BinaryFacts DEF Yield
    <3>3. s[v] = s[I.opnds[1]]
      BY <2>4, <2>11, <3>1 DEF StrideOf
    <3> QED BY <2>1, <3>1, <3>2, <3>3
  <2>12. CASE I.op \in Binary
    <3> DEFINE e == I.opnds[1]
               f == I.opnds[2]
    <3>1. 1 \in DOMAIN I.opnds /\ 2 \in DOMAIN I.opnds
      BY <2>12, OpcodeCases
    <3>2. e \in DOMAIN K /\ f \in DOMAIN K /\ Same(e) /\ Same(f)
      BY <2>1, <3>1
    <3>3. x[v] = Apply(I.op, x[e], x[f]) /\ y[v] = Apply(I.op, y[e], y[f])
      BY <2>3, <2>5, <2>12, <3>2, BinaryFacts DEF Yield
    <3>4. CASE I.op \in {"Add", "Sub"}
      <4> DEFINE S == [o \in DOMAIN I.opnds |-> s[I.opnds[o]]]
                 d == Apply(I.op, s[e], s[f])
      <4>1. s[v] = IF 2 \notin Range(S) /\ d \in {0, 1} THEN d ELSE 2
        BY <2>4, <3>1, <3>4 DEF StrideOf
      <4>2. s[e] \in Range(S) /\ s[f] \in Range(S)
        BY <3>1 DEF Range
      <4>3. s[e] \in {0, 1, 2} /\ s[f] \in {0, 1, 2} /\ x[e] \in Int /\ y[e] \in Int
            /\ x[f] \in Int /\ y[f] \in Int
        BY <2>4, <2>5, <3>2
      <4>4. s[v] # 2 => s[e] \in {0, 1} /\ s[f] \in {0, 1} /\ s[v] = d
        BY <4>1, <4>2, <4>3
      <4> HIDE DEF S, e, f
      <4>5. CASE I.op = "Add"
        BY <3>2, <3>3, <4>3, <4>4, <4>5 DEF Apply
      <4>6. CASE I.op = "Sub"
        BY <3>2, <3>3, <4>3, <4>4, <4>6 DEF Apply
      <4> QED BY <3>4, <4>5, <4>6
    <3>5. CASE I.op \notin {"Add", "Sub"}
      <4> DEFINE S == [o \in DOMAIN I.opnds |-> s[I.opnds[o]]]
      <4>1. s[v] = IF Range(S) = {0} THEN 0 ELSE 2
        BY <2>4, <2>12, <3>5, BinaryFacts DEF StrideOf
      <4>2. s[e] \in Range(S) /\ s[f] \in Range(S)
        BY <3>1 DEF Range
      <4> HIDE DEF S, e, f
      <4> QED BY <3>2, <3>3, <4>1, <4>2
    <3> QED BY <3>4, <3>5
  <2>13. CASE I.op = "FNeg"
    <3> DEFINE e == I.opnds[1]
    <3>1. 1 \in DOMAIN I.opnds
      BY <2>13, OpcodeCases
    <3>2. e \in DOMAIN K /\ Same(e)
      BY <2>1, <3>1
    <3>3. x[v] = x[e] /\ y[v] = y[e]
      BY <2>3, <2>5, <2>13, <3>2, BinaryFacts DEF Yield
    <3> DEFINE S == [o \in DOMAIN I.opnds |-> s[I.opnds[o]]]
    <3>4. s[v] = IF Range(S) = {0} THEN 0 ELSE 2
      BY <2>4, <2>13 DEF StrideOf
    <3>5. s[e] \in Range(S)
      BY <3>1 DEF Range
    <3> HIDE DEF S, e
    <3> QED BY <3>2, <3>3, <3>4, <3>5
  <2> QED BY <2>7, <2>8, <2>9, <2>10, <2>11, <2>12, <2>13, OpcodeCases
<1> QED BY <1>3, <1>4 DEF Follows

LEMMA ItemsFollow ==
  ASSUME NEW K, WellFormed(K), UniformBlocks(K), NEW t \in Int, NEW u \in Int, Apart(K, t, u)
  PROVE  \A v \in DOMAIN K : Follows(K, t, u, v)
<1> DEFINE n == Len(K)
           S == {v \in 1..n : Follows(K, t, u, v)}
<1>1. n \in Nat /\ DOMAIN K = 1..n
  BY KernelDomain
<1>2. ASSUME NEW v \in 1..n, 1..(v - 1) \subseteq S PROVE v \in S
  BY <1>1, <1>2, FollowsStep
<1>3. 1..n \subseteq S
  <2> HIDE DEF S, n
  <2> QED BY <1>1, <1>2, Below
<1> QED BY <1>1, <1>3
-----------------------------------------------------------------------------
(* A call that runs the items b + k, k in A, at once.  The instructions of  *)
(* V work on every lane.                                                    *)
VectorSet(K, V) ==
  \A v \in V :
    /\ v \in DOMAIN K /\ K[v].op \in {"load", "store"} \cup Arithmetic
    /\ \A o \in DOMAIN K[v].opnds : K[v].opnds[o] \in V \/ K[K[v].opnds[o]].op = "arg"
    /\ K[v].op \in {"load", "store"} => Strides(K)[K[v].idx] = 1

StoresCovered(K, V, A) == A = {0} \/ \A v \in DOMAIN K : K[v].op = "store" => v \in V

Disjoint(K, T) ==
  \A t \in T :
    /\ Item(K, t).read \subseteq Cells /\ Item(K, t).written \subseteq Cells
    /\ \A u \in T \ {t} : /\ Item(K, t).written \cap Item(K, u).read = {}
                          /\ Item(K, t).written \cap Item(K, u).written = {}

Items(A, b) == {b + k : k \in A}

Calls(K, V, A, b, m, Q) ==
  /\ WellFormed(K) /\ UniformBlocks(K) /\ VectorSet(K, V) /\ StoresCovered(K, V, A)
  /\ b \in Int /\ GoesThrough(K, V, A, FirstId + b, m, Q)
  /\ Disjoint(K, Items(A, b))
  /\ \A k \in A : \A c \in Item(K, b + k).read \cup Item(K, b + k).written : m[c] = Memory[c]

Lane(V, v, k) == IF v \in V THEN k ELSE 0

(* The lanes have the values of the items, and so have the cells these      *)
(* have written.                                                            *)
SameValue(K, V, A, b, M, v) ==
  \A k \in A : M.env[v][k] = Item(K, b + Lane(V, v, k)).env[v][0]

SameMemory(K, A, b, m, Q, i) ==
  \A c \in Cells :
    /\ \A k \in A : c \in ItemRun(K, b + k)[i].written => Q[i].mem[c] = ItemRun(K, b + k)[i].mem[c]
    /\ (\A k \in A : c \notin ItemRun(K, b + k)[i].written) => Q[i].mem[c] = m[c]

LEMMA CallLanes ==
  ASSUME NEW K, NEW V, NEW A, NEW b, NEW m, NEW Q, Calls(K, V, A, b, m, Q)
  PROVE  /\ 0 \in A /\ WellFormed(K) /\ Len(K) \in Nat /\ DOMAIN K = 1..Len(K) /\ b \in Int
         /\ \A k \in A : k \in Int /\ b + k \in Int /\ b + k \in Items(A, b)
<1>1. WellFormed(K) /\ b \in Int /\ 0 \in A /\ A \in SUBSET Int
  BY DEF Calls, GoesThrough, Sound
<1> QED BY <1>1, KernelDomain DEF Items

LEMMA LanesFollow ==
  ASSUME NEW K, NEW V, NEW A, NEW b, NEW m, NEW Q, Calls(K, V, A, b, m, Q), NEW k \in A,
         NEW v \in DOMAIN K
  PROVE  Follows(K, b, b + k, v)
<1>1. WellFormed(K) /\ UniformBlocks(K) /\ b \in Int /\ b + k \in Int /\ k \in Int
  BY CallLanes DEF Calls
<1>2. CASE k = 0
  <2>1. b + k = b /\ (b + k) - b = 0
    BY <1>1, <1>2
  <2>2. Item(K, b).env[v][0] \in Int
    BY <1>1, ItemFacts
  <2> QED BY <2>1, <2>2 DEF Follows
<1>3. CASE k # 0
  <2>1. b + 0 = b /\ b + k # b
    BY <1>1, <1>3
  <2>2. b \in Items(A, b) /\ b + k \in Items(A, b)
    <3>1. 0 \in A
      BY CallLanes
    <3> QED BY <2>1, <3>1 DEF Items
  <2>3. Apart(K, b, b + k)
    BY <2>1, <2>2 DEF Calls, Disjoint, Apart
  <2> QED BY <1>1, <2>3, ItemsFollow
<1> QED BY <1>2, <1>3

(* The instruction i in a call, when the ones before have the items' values.*)
Meets(K, V, A, b, m, Q, i, M) ==
  /\ Calls(K, V, A, b, m, Q) /\ i \in 1..Len(K) /\ M = Q[Len(K)]
  /\ \A w \in 1..(i - 1) : SameValue(K, V, A, b, M, w)
  /\ SameMemory(K, A, b, m, Q, i - 1)

LEMMA MeetsFacts ==
  ASSUME NEW K, NEW V, NEW A, NEW b, NEW m, NEW Q, NEW i, NEW M, Meets(K, V, A, b, m, Q, i, M)
  PROVE  /\ i \in DOMAIN K /\ Fits(K, i) /\ WellFormed(K) /\ b \in Int /\ 0 \in A
         /\ \A k \in A : k \in Int /\ b + k \in Int /\ b + k \in Items(A, b)
         /\ \A w \in 1..(i - 1) : M.env[w][0] = Item(K, b).env[w][0] /\ w \in DOMAIN K
<1>1. Calls(K, V, A, b, m, Q) /\ i \in 1..Len(K)
  BY DEF Meets
<1>2. /\ 0 \in A /\ WellFormed(K) /\ Len(K) \in Nat /\ DOMAIN K = 1..Len(K) /\ b \in Int
      /\ \A k \in A : k \in Int /\ b + k \in Int /\ b + k \in Items(A, b)
  BY <1>1, CallLanes
<1>3. \A w \in 1..(i - 1) : M.env[w][0] = Item(K, b + 0).env[w][0] /\ w \in DOMAIN K
  BY <1>1, <1>2 DEF Meets, SameValue, Lane
<1>4. b + 0 = b
  BY <1>2
<1> QED BY <1>1, <1>2, <1>3, <1>4 DEF WellFormed

LEMMA SameReach ==
  ASSUME NEW K, NEW V, NEW A, NEW b, NEW m, NEW Q, NEW i, NEW M, Meets(K, V, A, b, m, Q, i, M),
         NEW k \in A
  PROVE  Reached(K, M, i) <=> Reached(K, Item(K, b + k), i)
<1>1. Reached(K, M, i) <=> Reached(K, Item(K, b), i)
  BY MeetsFacts DEF Reached, Fits
<1>2. Follows(K, b, b + k, i)
  BY MeetsFacts, LanesFollow DEF Meets
<1> QED BY <1>1, <1>2 DEF Follows

LEMMA SameOperand ==
  ASSUME NEW K, NEW V, NEW A, NEW b, NEW m, NEW Q, NEW i, NEW M, Meets(K, V, A, b, m, Q, i, M),
         NEW j \in A, j = 0 \/ i \in V, Reached(K, M, i), NEW o \in DOMAIN K[i].opnds
  PROVE  M.env[K[i].opnds[o]][j] = Item(K, b + j).env[K[i].opnds[o]][0]
<1> DEFINE w == K[i].opnds[o]
<1>1. w \in 1..(i - 1) /\ Usable(K, w, K[i].block) /\ w \in DOMAIN K
  BY MeetsFacts DEF Fits
<1>2. CASE j = 0
  <2>1. b + 0 = b /\ b \in Int
    BY MeetsFacts
  <2> QED BY <1>1, <1>2, <2>1, MeetsFacts
<1>3. CASE w \in V
  <2>1. M.env[w][j] = Item(K, b + Lane(V, w, j)).env[w][0]
    BY <1>1 DEF Meets, SameValue
  <2> QED BY <1>3, <2>1 DEF Lane
<1>4. CASE j # 0 /\ w \notin V
  <2>1. K[w].op = "arg"
    BY <1>4 DEF Meets, Calls, VectorSet
  <2>2. M.env[w][j] = Item(K, b + 0).env[w][0]
    BY <1>1, <1>4 DEF Meets, SameValue, Lane
  <2>3. ASSUME NEW k \in A PROVE Item(K, b + k).env[w][0] = 1
    <3>1. Reached(K, Item(K, b + k), w)
      BY <1>1, SameReach, OperandReached
    <3> HIDE DEF w
    <3>2. /\ WellFormed(K) /\ b + k \in Int /\ w \in DOMAIN K
      BY <1>1, MeetsFacts
    <3> DEFINE L == Item(K, b + k)
    <3>3. L.env[w][0] = Yield(K, L, ItemRun(K, b + k)[w - 1].mem, w, 0)
      BY <3>1, <3>2, ItemFacts
    <3> QED BY <2>1, <3>3, BinaryFacts DEF Yield
  <2>4. 0 \in A
    BY MeetsFacts
  <2> QED BY <2>2, <2>3, <2>4
<1> QED BY <1>2, <1>3, <1>4

LEMMA SameCell ==
  ASSUME NEW K, NEW V, NEW A, NEW b, NEW m, NEW Q, NEW i, NEW M, Meets(K, V, A, b, m, Q, i, M),
         NEW j \in A, j = 0 \/ i \in V, Reached(K, M, i), K[i].op \in {"load", "store"}
  PROVE  Cell(K, M, i, j) = Cell(K, Item(K, b + j), i, 0)
<1> DEFINE x == K[i].idx
<1>1. x \in 1..(i - 1) /\ Usable(K, x, K[i].block) /\ x \in DOMAIN K
  BY MeetsFacts DEF Fits
<1>2. /\ M.env[x][0] = Item(K, b).env[x][0] /\ b \in Int /\ j \in Int /\ b + j \in Int
      /\ Item(K, b).env[x][0] \in Int /\ Item(K, b + j).env[x][0] \in Int
  <2>1. WellFormed(K) /\ b \in Int /\ j \in Int /\ b + j \in Int /\ M.env[x][0] = Item(K, b).env[x][0]
    BY <1>1, MeetsFacts
  <2> HIDE DEF x
  <2> QED BY <1>1, <2>1, ItemFacts
<1>3. Item(K, b + j).env[x][0] = Item(K, b).env[x][0] + j
  <2>1. CASE j = 0
    <3>1. b + j = b
      BY <1>2, <2>1
    <3> QED BY <1>2, <2>1, <3>1
  <2>2. CASE j # 0
    <3>1. Strides(K)[x] = 1
      BY <2>2 DEF Meets, Calls, VectorSet
    <3>2. Reached(K, Item(K, b), x)
      <4>1. Reached(K, Item(K, b + 0), i) /\ b + 0 = b
        <5>1. 0 \in A
          BY MeetsFacts
        <5> QED BY <1>2, <5>1, SameReach
      <4> QED BY <1>1, <4>1, OperandReached
    <3>3. Follows(K, b, b + j, x)
      <4>1. Calls(K, V, A, b, m, Q)
        BY DEF Meets
      <4> QED BY <1>1, <4>1, LanesFollow
    <3>4. Item(K, b + j).env[x][0] = Item(K, b).env[x][0] + ((b + j) - b)
      BY <3>1, <3>2, <3>3 DEF Follows
    <3> QED BY <1>2, <3>4
  <2> QED BY <2>1, <2>2
<1> QED BY <1>2, <1>3 DEF Cell

LEMMA SameLoad ==
  ASSUME NEW K, NEW V, NEW A, NEW b, NEW m, NEW Q, NEW i, NEW M, Meets(K, V, A, b, m, Q, i, M),
         NEW j \in A, NEW c \in Item(K, b + j).read
  PROVE  c \in Cells /\ Q[i - 1].mem[c] = ItemRun(K, b + j)[i - 1].mem[c]
<1>1. /\ WellFormed(K) /\ i - 1 \in 0..Len(K)
      /\ \A k \in A : b + k \in Int /\ b + k \in Items(A, b)
  BY MeetsFacts, KernelDomain
<1>2. c \in Cells
  BY <1>1 DEF Meets, Calls, Disjoint
<1>3. CASE c \in ItemRun(K, b + j)[i - 1].written
  BY <1>2, <1>3 DEF Meets, SameMemory
<1>4. CASE c \notin ItemRun(K, b + j)[i - 1].written
  <2>1. ItemRun(K, b + j)[i - 1].mem[c] = Memory[c]
    BY <1>1, <1>2, <1>4, ItemStart
  <2>2. ASSUME NEW k \in A PROVE c \notin ItemRun(K, b + k)[i - 1].written
    <3>1. CASE b + k = b + j
      BY <1>4, <3>1
    <3>2. CASE b + k # b + j
      <4>1. c \notin Item(K, b + k).written
        BY <1>1, <3>2 DEF Meets, Calls, Disjoint
      <4>2. ItemRun(K, b + k)[i - 1].written \subseteq Item(K, b + k).written
        BY <1>1, ItemStart
      <4> QED BY <4>1, <4>2
    <3> QED BY <3>1, <3>2
  <2>3. Q[i - 1].mem[c] = m[c]
    BY <1>2, <2>2 DEF Meets, SameMemory
  <2>4. m[c] = Memory[c]
    BY DEF Meets, Calls
  <2> QED BY <1>2, <2>1, <2>3, <2>4
<1> QED BY <1>2, <1>3, <1>4

LEMMA SameYield ==
  ASSUME NEW K, NEW V, NEW A, NEW b, NEW m, NEW Q, NEW i, NEW M, Meets(K, V, A, b, m, Q, i, M),
         NEW j \in A, j = 0 \/ i \in V, Reached(K, M, i)
  PROVE  Yield(K, M, Q[i - 1].mem, i, j)
           = Yield(K, Item(K, b + j), ItemRun(K, b + j)[i - 1].mem, i, 0)
<1> DEFINE L == Item(K, b + j)
           p == ItemRun(K, b + j)[i - 1].mem
           q == Q[i - 1].mem
<1>1. /\ i \in DOMAIN K /\ WellFormed(K) /\ b + j \in Int /\ i \in 1..Len(K) /\ Len(K) \in Nat
      /\ b \in Int
  BY MeetsFacts, KernelDomain DEF Meets
<1>2. Reached(K, L, i)
  BY SameReach
<1>3. \A o \in DOMAIN K[i].opnds : M.env[K[i].opnds[o]][j] = L.env[K[i].opnds[o]][0]
  BY SameOperand
<1>4. K[i].op \in {"load", "store"} => Cell(K, M, i, j) = Cell(K, L, i, 0)
  BY SameCell
<1>5. M.base = FirstId + b /\ L.base = FirstId + (b + j)
  <2>1. GoesThrough(K, V, A, FirstId + b, m, Q) /\ M = Q[Len(K)] /\ Len(K) \in 0..Len(K)
    BY <1>1 DEF Meets, Calls
  <2>2. M.base = FirstId + b
    BY <2>1, RunTypes
  <2>3. L.base = FirstId + (b + j)
    BY <1>1, ItemFacts
  <2> QED BY <2>2, <2>3
<1>6. j # 0 => K[i].op \in {"load", "store"} \cup Arithmetic
  BY DEF Meets, Calls, VectorSet
<1>7. CASE K[i].op = "call"
  <2>1. j = 0
    BY <1>6, <1>7, BinaryFacts
  <2>2. FirstId + b = FirstId + (b + j)
    BY <1>1, <2>1 DEF FirstId
  <2> HIDE DEF L, p, q
  <2>3. Yield(K, M, q, i, j) = Yield(K, L, p, i, 0)
    BY <1>5, <1>7, <2>2, BinaryFacts DEF Yield
  <2> QED BY <2>3 DEF L, p, q
<1>8. CASE K[i].op \in {"arg", "store"}
  BY <1>8, BinaryFacts DEF Yield
<1>9. CASE K[i].op = "load"
  <2> DEFINE c == Cell(K, L, i, 0)
  <2>1. c \in L.read
    BY <1>1, <1>2, <1>9, ItemMemory
  <2>2. c \in Cells /\ q[c] = p[c]
    BY <2>1, SameLoad
  <2>3. DOMAIN q = Cells /\ DOMAIN p = Cells
    <3>1. i - 1 \in 0..Len(K)
      BY <1>1
    <3>2. Q[i - 1] \in RunState(A)
      <4>1. GoesThrough(K, V, A, FirstId + b, m, Q)
        BY DEF Meets, Calls
      <4> QED BY <3>1, <4>1, RunTypes
    <3>3. q \in [Cells -> Int]
      BY <3>2 DEF RunState
    <3>4. p \in [Cells -> Int]
      BY <1>1, <3>1, ItemStart
    <3> QED BY <3>3, <3>4
  <2>4. Cell(K, M, i, j) = c
    BY <1>4, <1>9
  <2> HIDE DEF L, p, q, c
  <2>5. Yield(K, M, q, i, j) = q[c]
    BY <1>9, <2>2, <2>3, <2>4, BinaryFacts DEF Yield
  <2>6. Yield(K, L, p, i, 0) = p[c]
    BY <1>9, <2>2, <2>3, BinaryFacts DEF Yield, c
  <2> QED BY <2>2, <2>5, <2>6 DEF L, p, q
<1>10. CASE K[i].op \in Binary
  <2>1. 1 \in DOMAIN K[i].opnds /\ 2 \in DOMAIN K[i].opnds
    BY <1>1, <1>10, OpcodeCases
  <2> HIDE DEF L, p, q
  <2>2. /\ M.env[K[i].opnds[1]][j] = L.env[K[i].opnds[1]][0]
        /\ M.env[K[i].opnds[2]][j] = L.env[K[i].opnds[2]][0]
    BY <1>3, <2>1
  <2>3. Yield(K, M, q, i, j) = Yield(K, L, p, i, 0)
    BY <1>10, <2>2, BinaryFacts DEF Yield
  <2> QED BY <2>3 DEF L, p, q
<1>11. CASE K[i].op \in {"FNeg", "cast"}
  <2>1. 1 \in DOMAIN K[i].opnds
    BY <1>1, <1>11, OpcodeCases
  <2> HIDE DEF L, p, q
  <2>2. M.env[K[i].opnds[1]][j] = L.env[K[i].opnds[1]][0]
    BY <1>3, <2>1
  <2>3. Yield(K, M, q, i, j) = Yield(K, L, p, i, 0)
    BY <1>11, <2>2, BinaryFacts DEF Yield
  <2> QED BY <2>3 DEF L, p, q
<1>12. K[i].op \in {"call", "arg", "load", "store", "FNeg", "cast"} \cup Binary
  BY <1>1, OpcodeCases
<1> QED BY <1>7, <1>8, <1>9, <1>10, <1>11, <1>12

LEMMA ValueStep ==
  ASSUME NEW K, NEW V, NEW A, NEW b, NEW m, NEW Q, NEW i, NEW M, Meets(K, V, A, b, m, Q, i, M)
  PROVE  SameValue(K, V, A, b, M, i)
<1> SUFFICES ASSUME NEW k \in A PROVE M.env[i][k] = Item(K, b + Lane(V, i, k)).env[i][0]
  BY DEF SameValue
<1> DEFINE j == Lane(V, i, k)
           L == Item(K, b + j)
           p == ItemRun(K, b + j)[i - 1].mem
           q == Q[i - 1].mem
<1>1. j \in A /\ (j = 0 \/ i \in V) /\ b + j \in Int /\ WellFormed(K) /\ i \in DOMAIN K
  <2>1. 0 \in A
    BY MeetsFacts
  <2>2. j \in A /\ (j = 0 \/ i \in V)
    BY <2>1 DEF Lane
  <2> HIDE DEF j
  <2> QED BY <2>2, MeetsFacts
<1>2. M.env[i][k] = IF Reached(K, M, i) THEN Yield(K, M, q, i, j) ELSE 0
  <2>1. GoesThrough(K, V, A, FirstId + b, m, Q) /\ M = Q[Len(K)] /\ i \in 1..Len(K)
    BY DEF Meets, Calls
  <2>2. M.env[i][k] = IF Reached(K, M, i)
                      THEN Yield(K, M, Q[i - 1].mem, i, IF i \in V THEN k ELSE 0) ELSE 0
    BY <2>1, RunStep
  <2> QED BY <2>2 DEF Lane
<1> HIDE DEF j
<1>3. L.env[i][0] = IF Reached(K, L, i) THEN Yield(K, L, p, i, 0) ELSE 0
  BY <1>1, ItemFacts
<1>4. Reached(K, M, i) <=> Reached(K, L, i)
  BY <1>1, SameReach
<1>5. Reached(K, M, i) => Yield(K, M, q, i, j) = Yield(K, L, p, i, 0)
  BY <1>1, SameYield
<1> QED BY <1>2, <1>3, <1>4, <1>5 DEF j

LEMMA MemoryOfStep ==
  ASSUME NEW K, NEW V, NEW A, NEW b, NEW m, NEW Q, NEW i, NEW M, Meets(K, V, A, b, m, Q, i, M)
  PROVE  SameMemory(K, A, b, m, Q, i)
<1>1. /\ i \in DOMAIN K /\ WellFormed(K) /\ b \in Int /\ 0 \in A
      /\ \A k \in A : k \in Int /\ b + k \in Int /\ b + k \in Items(A, b)
  BY MeetsFacts
<1>2. MemoryStep(K, V, A, Q, i, M)
  BY RunMemory DEF Meets, Calls
<1>3. \A k \in A : Reached(K, M, i) <=> Reached(K, Item(K, b + k), i)
  BY SameReach
<1>4. SameMemory(K, A, b, m, Q, i - 1)
  BY DEF Meets
<1>5. CASE ~(K[i].op = "store" /\ Reached(K, M, i))
  <2>1. Q[i].mem = Q[i - 1].mem
    BY <1>2, <1>5 DEF MemoryStep
  <2>2. ASSUME NEW k \in A
        PROVE  /\ ItemRun(K, b + k)[i].mem = ItemRun(K, b + k)[i - 1].mem
               /\ ItemRun(K, b + k)[i].written = ItemRun(K, b + k)[i - 1].written
    BY <1>1, <1>3, <1>5, ItemMemory
  <2> QED BY <1>4, <2>1, <2>2 DEF SameMemory
<1>6. CASE K[i].op = "store" /\ Reached(K, M, i)
  <2> DEFINE cell(k) == Cell(K, Item(K, b + k), i, 0)
             x == M.env[K[i].idx][0]
             o == K[i].opnds[1]
  <2>1. A = {0} \/ i \in V
    BY <1>1, <1>6 DEF Meets, Calls, StoresCovered
  <2>2. Touched(K, V, A, M, i) = {Cell(K, M, i, k) : k \in A}
    BY <2>1 DEF Touched
  <2>3. \A k \in A : k = 0 \/ i \in V
    BY <2>1
  <2>4. \A k \in A : Cell(K, M, i, k) = cell(k)
    BY <1>6, <2>3, SameCell
  <2>5. \A k \in A : M.env[o][k] = Item(K, b + k).env[o][0]
    <3>1. 1 \in DOMAIN K[i].opnds
      BY <1>1, <1>6, OpcodeCases
    <3> QED BY <1>6, <2>3, <3>1, SameOperand
  <2>6. ASSUME NEW k \in A
        PROVE  /\ cell(k) \in Item(K, b + k).written
               /\ ItemRun(K, b + k)[i].written = ItemRun(K, b + k)[i - 1].written \cup {cell(k)}
               /\ \A c \in Cells : ItemRun(K, b + k)[i].mem[c]
                    = IF c = cell(k) THEN Item(K, b + k).env[o][0] ELSE ItemRun(K, b + k)[i - 1].mem[c]
    BY <1>1, <1>3, <1>6, ItemMemory
  <2>7. ASSUME NEW k \in A PROVE ItemRun(K, b + k)[i].written \subseteq Item(K, b + k).written
    <3>1. i \in 0..Len(K)
      BY <1>1, KernelDomain
    <3> QED BY <1>1, <3>1, ItemStart
  <2>8. ASSUME NEW k \in A, NEW j \in A, cell(j) \in Item(K, b + k).written PROVE k = j
    <3>1. b + k = b + j
      BY <1>1, <2>6, <2>8 DEF Meets, Calls, Disjoint
    <3> QED BY <1>1, <3>1
  <2>9. \A k \in A : cell(k)[2] - x = k
    <3>1. x \in Int
      <4>1. GoesThrough(K, V, A, FirstId + b, m, Q) /\ i \in 1..Len(K) /\ M = Q[Len(K)]
        BY DEF Meets, Calls
      <4>2. K[i].idx \in DOMAIN K
        BY <1>1, <1>6, KernelDomain DEF WellFormed, Fits
      <4>3. x = Item(K, b).env[K[i].idx][0]
        <5>1. K[i].idx \in 1..(i - 1)
          BY <1>1, <1>6 DEF WellFormed, Fits
        <5> QED BY <5>1, MeetsFacts
      <4> QED BY <1>1, <4>2, <4>3, ItemFacts
    <3>2. \A k \in A : cell(k)[2] = x + k
      BY <2>4 DEF Cell
    <3> HIDE DEF x, cell
    <3> QED BY <1>1, <3>1, <3>2
  <2>10. \A c \in Cells : Q[i].mem[c] = IF c \in Touched(K, V, A, M, i)
                                        THEN M.env[o][c[2] - x] ELSE Q[i - 1].mem[c]
    BY <1>2, <1>6 DEF MemoryStep
  <2> HIDE DEF cell, x, o
  <2> SUFFICES ASSUME NEW c \in Cells
               PROVE  /\ \A k \in A : c \in ItemRun(K, b + k)[i].written =>
                                        Q[i].mem[c] = ItemRun(K, b + k)[i].mem[c]
                      /\ (\A k \in A : c \notin ItemRun(K, b + k)[i].written) => Q[i].mem[c] = m[c]
    BY DEF SameMemory
  <2>11. CASE \E j \in A : c = cell(j)
    <3>1. PICK j \in A : c = cell(j)
      BY <2>11
    <3>2. c \in Touched(K, V, A, M, i)
      BY <2>2, <2>4, <3>1
    <3>3. Q[i].mem[c] = ItemRun(K, b + j)[i].mem[c]
      BY <2>5, <2>6, <2>9, <2>10, <3>1, <3>2
    <3>4. c \in ItemRun(K, b + j)[i].written
      BY <2>6, <3>1
    <3>5. \A k \in A : c \in ItemRun(K, b + k)[i].written => k = j
      BY <2>7, <2>8, <3>1
    <3> QED BY <3>3, <3>4, <3>5
  <2>12. CASE \A j \in A : c # cell(j)
    <3>1. Q[i].mem[c] = Q[i - 1].mem[c]
      BY <2>2, <2>4, <2>10, <2>12
    <3>2. \A k \in A : /\ c \in ItemRun(K, b + k)[i].written <=> c \in ItemRun(K, b + k)[i - 1].written
                       /\ ItemRun(K, b + k)[i].mem[c] = ItemRun(K, b + k)[i - 1].mem[c]
      BY <2>6, <2>12
    <3> QED BY <1>4, <3>1, <3>2 DEF SameMemory
  <2> QED BY <2>11, <2>12
<1> QED BY <1>5, <1>6

(* What a call leaves: what its items write, and the rest as it was.        *)
LEMMA CallLeaves ==
  ASSUME NEW K, NEW V, NEW A, NEW b, NEW m, NEW Q, Calls(K, V, A, b, m, Q)
  PROVE  /\ Q[Len(K)].mem \in [Cells -> Int]
         /\ \A c \in Cells :
              /\ \A k \in A : c \in Item(K, b + k).written =>
                                Q[Len(K)].mem[c] = Item(K, b + k).mem[c]
              /\ (\A k \in A : c \notin Item(K, b + k).written) => Q[Len(K)].mem[c] = m[c]
<1> DEFINE n == Len(K)
           M == Q[n]
           S == {i \in 0..n : /\ \A w \in 1..i : SameValue(K, V, A, b, M, w)
                              /\ SameMemory(K, A, b, m, Q, i)}
<1>1. /\ n \in Nat /\ WellFormed(K) /\ GoesThrough(K, V, A, FirstId + b, m, Q)
      /\ \A k \in A : b + k \in Int
  BY CallLanes DEF Calls
<1>2. /\ Q[0] = Begin(FirstId + b, m) /\ M \in RunState(A)
  <2>1. n \in 0..n
    BY <1>1
  <2> QED BY <1>1, <2>1, RunTypes
<1>3. 0 \in S
  <2>1. Q[0].mem = m
    BY <1>2 DEF Begin
  <2>2. \A k \in A : ItemRun(K, b + k)[0].written = {}
    BY <1>1, ItemStart
  <2>3. SameMemory(K, A, b, m, Q, 0)
    BY <2>1, <2>2 DEF SameMemory
  <2> QED BY <1>1, <2>3
<1>4. ASSUME NEW k \in 0..(n - 1), k \in S PROVE k + 1 \in S
  <2> DEFINE i == k + 1
  <2>1. i \in 1..n /\ i - 1 = k /\ i \in 0..n /\ \A w \in 1..i : w = i \/ w \in 1..(i - 1)
    BY <1>1
  <2> HIDE DEF i
  <2>2. Meets(K, V, A, b, m, Q, i, M)
    BY <1>4, <2>1 DEF Meets
  <2>3. SameValue(K, V, A, b, M, i) /\ SameMemory(K, A, b, m, Q, i)
    BY <2>2, ValueStep, MemoryOfStep
  <2>4. i \in S
    BY <1>4, <2>1, <2>3
  <2> QED BY <2>4 DEF i
<1>5. n \in S
  <2> HIDE DEF S, n
  <2>1. \A k \in 0..(n - 1) : k \in S => k + 1 \in S
    BY <1>4
  <2>2. 0..n \subseteq S
    BY <1>1, <1>3, <2>1, Upwards
  <2> QED BY <1>1, <2>2
<1>6. SameMemory(K, A, b, m, Q, n)
  BY <1>5
<1>7. M.mem \in [Cells -> Int]
  BY <1>2 DEF RunState
<1> QED BY <1>6, <1>7 DEF SameMemory, Item
-----------------------------------------------------------------------------
(* The wrapper's loop over the calls of a work group.                       *)
IsLoop(K, V, n, f) ==
  f = [t \in 0..GroupSize |->
         IF t = 0 THEN Memory ELSE VectorCall(K, V, n, (t - 1) * n, f[t - 1])]

IsScalarLoop(K, f) ==
  f = [t \in 0..GroupSize |-> IF t = 0 THEN Memory ELSE ScalarCall(K, t - 1, f[t - 1]).mem]

LEMMA LoopExists ==
  ASSUME NEW K, NEW V, NEW n
  PROVE  \E f : IsLoop(K, V, n, f)
<1> DEFINE g == GroupSize
           N(t, m) == VectorCall(K, V, n, (t - 1) * n, m)
           S == {k \in 0..g : \E f : f[0] = Memory /\ \A t \in 1..k : f[t] = N(t, f[t - 1])}
<1>1. g \in Nat
  BY GroupSizeAssumption
<1> HIDE DEF g, N
<1>2. 0 \in S
  <2> DEFINE f == [t \in {0} |-> Memory]
  <2>1. f[0] = Memory
    OBVIOUS
  <2> HIDE DEF f
  <2> QED BY <1>1, <2>1
<1>3. ASSUME NEW k \in 0..(g - 1), k \in S PROVE k + 1 \in S
  <2>1. PICK f : f[0] = Memory /\ \A t \in 1..k : f[t] = N(t, f[t - 1])
    BY <1>3
  <2> DEFINE h == [t \in 0..g |-> IF t \in 0..k THEN f[t] ELSE N(k + 1, f[k])]
  <2>2. (\A t \in 0..k : h[t] = f[t]) /\ h[k + 1] = N(k + 1, f[k])
    BY <1>1
  <2> HIDE DEF h
  <2>3. ASSUME NEW t \in 1..(k + 1) PROVE h[t] = N(t, h[t - 1])
    <3>1. CASE t = k + 1
      <4>1. t - 1 = k /\ k \in 0..k
        BY <1>1, <3>1
      <4> QED BY <2>2, <3>1, <4>1
    <3>2. CASE t # k + 1
      <4>1. t \in 1..k /\ t \in 0..k /\ t - 1 \in 0..k
        BY <1>1, <3>2
      <4> QED BY <2>1, <2>2, <4>1
    <3> QED BY <3>1, <3>2
  <2>4. h[0] = Memory /\ k + 1 \in 0..g
    BY <1>1, <2>1, <2>2
  <2> QED BY <2>3, <2>4
<1>4. g \in S
  <2> HIDE DEF S
  <2>1. \A k \in 0..(g - 1) : k \in S => k + 1 \in S
    BY <1>3
  <2>2. 0..g \subseteq S
    BY <1>1, <1>2, <2>1, Upwards
  <2> QED BY <1>1, <2>2
<1>5. PICK f : f[0] = Memory /\ \A t \in 1..g : f[t] = N(t, f[t - 1])
  BY <1>4
<1> DEFINE h == [t \in 0..g |-> f[t]]
<1>6. h = [t \in 0..g |-> IF t = 0 THEN Memory ELSE N(t, h[t - 1])]
  <2>1. ASSUME NEW t \in 0..g PROVE h[t] = IF t = 0 THEN Memory ELSE N(t, h[t - 1])
    <3>1. CASE t = 0
      BY <1>5, <3>1
    <3>2. CASE t # 0
      <4>1. t \in 1..g /\ t - 1 \in 0..g
        BY <1>1, <3>2
      <4> QED BY <1>5, <3>2, <4>1
    <3> QED BY <3>1, <3>2
  <2> QED BY <2>1
<1> HIDE DEF h
<1> QED BY <1>6 DEF IsLoop, g, N

LEMMA LoopOfResult ==
  ASSUME NEW K, NEW V, NEW n
  PROVE  \E f : IsLoop(K, V, n, f) /\ VectorResult(K, V, n) = f[GroupSize]
<1> DEFINE P(f) == IsLoop(K, V, n, f)
           C == CHOOSE f : P(f)
<1>1. VectorResult(K, V, n) = C[GroupSize]
  BY DEF VectorResult, IsLoop
<1>2. \E f : P(f)
  BY LoopExists
<1> HIDE DEF P
<1>3. P(C)
  BY <1>2
<1> HIDE DEF C
<1> QED BY <1>1, <1>3 DEF P

(* One work item per call is a vector of one element.                       *)
LEMMA ScalarIsOneLane ==
  ASSUME NEW K, NEW t \in 0..(GroupSize - 1), NEW m
  PROVE  VectorCall(K, {}, 1, t * 1, m) = ScalarCall(K, t, m).mem
<1>1. t * 1 = t /\ ~(t >= GroupSize) /\ GroupSize \in Nat
  BY GroupSizeAssumption
<1>2. ActiveLanes(1, t) = {0}
  BY <1>1 DEF ActiveLanes
<1> QED BY <1>1, <1>2 DEF VectorCall, ScalarCall

LEMMA ScalarLoop ==
  ASSUME NEW K, NEW f
  PROVE  IsScalarLoop(K, f) <=> IsLoop(K, {}, 1, f)
<1>1. \A t \in 0..GroupSize : t # 0 =>
        VectorCall(K, {}, 1, (t - 1) * 1, f[t - 1]) = ScalarCall(K, t - 1, f[t - 1]).mem
  <2> TAKE t \in 0..GroupSize
  <2> HAVE t # 0
  <2>1. t - 1 \in 0..(GroupSize - 1)
    BY GroupSizeAssumption
  <2> QED BY <2>1, ScalarIsOneLane
<1>2. [t \in 0..GroupSize |-> IF t = 0 THEN Memory ELSE ScalarCall(K, t - 1, f[t - 1]).mem]
       = [t \in 0..GroupSize |->
            IF t = 0 THEN Memory ELSE VectorCall(K, {}, 1, (t - 1) * 1, f[t - 1])]
  BY <1>1
<1> QED BY <1>2 DEF IsScalarLoop, IsLoop

LEMMA LoopOfScalarResult ==
  ASSUME NEW K
  PROVE  \E f : IsLoop(K, {}, 1, f) /\ ScalarResult(K) = f[GroupSize]
<1> DEFINE P(f) == IsScalarLoop(K, f)
           C == CHOOSE f : P(f)
<1>1. ScalarResult(K) = C[GroupSize]
  BY DEF ScalarResult, IsScalarLoop
<1>2. \E f : P(f)
  BY LoopExists, ScalarLoop
<1> HIDE DEF P
<1>3. P(C)
  BY <1>2
<1> HIDE DEF C
<1> QED BY <1>1, <1>3, ScalarLoop DEF P

(* The memory m when the items before e have run.                           *)
Leaves(K, e, m) ==
  /\ m \in [Cells -> Int]
  /\ \A c \in Cells :
       /\ \A u \in 0..(GroupSize - 1) :
            u < e /\ c \in Item(K, u).written => m[c] = Item(K, u).mem[c]
       /\ (\A u \in 0..(GroupSize - 1) : u < e => c \notin Item(K, u).written) => m[c] = Memory[c]

LoopSetting(K, V, n) ==
  /\ WellFormed(K) /\ UniformBlocks(K) /\ VectorSet(K, V) /\ Disjoint(K, 0..(GroupSize - 1))
  /\ n \in Nat \ {0}
  /\ n = 1 \/ \A v \in DOMAIN K : K[v].op = "store" => v \in V

LEMMA LoopStep ==
  ASSUME NEW K, NEW V, NEW n, LoopSetting(K, V, n), NEW b \in Nat, NEW m, Leaves(K, b, m)
  PROVE  Leaves(K, b + n, VectorCall(K, V, n, b, m))
<1>1. /\ n \in Nat /\ n # 0 /\ GroupSize \in Nat /\ WellFormed(K)
      /\ m \in [Cells -> Int]
  BY GroupSizeAssumption DEF LoopSetting, Leaves
<1>2. CASE b >= GroupSize
  <2>1. VectorCall(K, V, n, b, m) = m
    BY <1>2 DEF VectorCall
  <2>2. \A u \in 0..(GroupSize - 1) : u < b /\ u < b + n
    BY <1>1, <1>2
  <2> QED BY <2>1, <2>2 DEF Leaves
<1>3. CASE ~(b >= GroupSize)
  <2> DEFINE A == ActiveLanes(n, b)
             Q == RunStates(K, V, A, FirstId + b, m)
             r == Q[Len(K)].mem
  <2>1. VectorCall(K, V, n, b, m) = r
    BY <1>3 DEF VectorCall, RunCall
  <2>2. /\ 0 \in A /\ A \in SUBSET Int
        /\ \A k \in A : k \in 0..(n - 1) /\ b + k \in 0..(GroupSize - 1)
        /\ n = 1 => A = {0}
        /\ \A u \in 0..(GroupSize - 1) : b <= u /\ u < b + n => u - b \in A /\ b + (u - b) = u
    BY <1>1, <1>3 DEF ActiveLanes
  <2> HIDE DEF A
  <2>3. Calls(K, V, A, b, m, Q)
    <3>1. GoesThrough(K, V, A, FirstId + b, m, Q)
      BY <1>1, <2>2 DEF GoesThrough, Sound, FirstId
    <3>2. Items(A, b) \subseteq 0..(GroupSize - 1)
      BY <2>2 DEF Items
    <3>3. Disjoint(K, Items(A, b))
      BY <3>2 DEF LoopSetting, Disjoint
    <3>4. ASSUME NEW k \in A, NEW c \in Item(K, b + k).read \cup Item(K, b + k).written
          PROVE  m[c] = Memory[c]
      <4>1. b + k \in 0..(GroupSize - 1) /\ k \in 0..(n - 1)
        BY <2>2
      <4>2. c \in Cells
        BY <3>4, <4>1 DEF LoopSetting, Disjoint
      <4>3. ASSUME NEW u \in 0..(GroupSize - 1), u < b PROVE c \notin Item(K, u).written
        <5>1. u # b + k
          BY <1>1, <4>1, <4>3
        <5> QED BY <3>4, <4>1, <5>1 DEF LoopSetting, Disjoint
      <4> QED BY <4>2, <4>3 DEF Leaves
    <3>5. UniformBlocks(K) /\ VectorSet(K, V) /\ StoresCovered(K, V, A)
      BY <2>2 DEF LoopSetting, StoresCovered
    <3> HIDE DEF Q
    <3> QED BY <1>1, <3>1, <3>3, <3>4, <3>5 DEF Calls
  <2> HIDE DEF Q
  <2>4. /\ r \in [Cells -> Int]
        /\ \A c \in Cells :
             /\ \A k \in A : c \in Item(K, b + k).written => r[c] = Item(K, b + k).mem[c]
             /\ (\A k \in A : c \notin Item(K, b + k).written) => r[c] = m[c]
    BY <2>3, CallLeaves
  <2> HIDE DEF r
  <2>5. ASSUME NEW c \in Cells, NEW u \in 0..(GroupSize - 1), u < b + n, c \in Item(K, u).written
        PROVE  r[c] = Item(K, u).mem[c]
    <3>1. CASE b <= u
      <4>1. u - b \in A /\ b + (u - b) = u
        BY <2>2, <2>5, <3>1
      <4> QED BY <2>4, <2>5, <4>1
    <3>2. CASE u < b
      <4>1. ASSUME NEW k \in A PROVE c \notin Item(K, b + k).written
        <5>1. b + k \in 0..(GroupSize - 1) /\ k \in 0..(n - 1)
          BY <2>2
        <5>2. u # b + k
          BY <1>1, <3>2, <5>1
        <5> QED BY <2>5, <5>1, <5>2 DEF LoopSetting, Disjoint
      <4>2. m[c] = Item(K, u).mem[c]
        BY <2>5, <3>2 DEF Leaves
      <4> QED BY <2>4, <4>1, <4>2
    <3> QED BY <1>1, <3>1, <3>2
  <2>6. ASSUME NEW c \in Cells, \A u \in 0..(GroupSize - 1) : u < b + n => c \notin Item(K, u).written
        PROVE  r[c] = Memory[c]
    <3>1. \A k \in A : c \notin Item(K, b + k).written
      <4> TAKE k \in A
      <4>1. b + k \in 0..(GroupSize - 1) /\ k \in 0..(n - 1)
        BY <2>2
      <4>2. b + k < b + n
        BY <1>1, <4>1
      <4> QED BY <2>6, <4>1, <4>2
    <3>2. \A u \in 0..(GroupSize - 1) : u < b => c \notin Item(K, u).written
      <4>1. \A u \in 0..(GroupSize - 1) : u < b => u < b + n
        BY <1>1
      <4> QED BY <2>6, <4>1
    <3>3. m[c] = Memory[c]
      BY <3>2 DEF Leaves
    <3> QED BY <2>4, <3>1, <3>3
  <2> QED BY <2>1, <2>4, <2>5, <2>6 DEF Leaves
<1> QED BY <1>2, <1>3

LEMMA Multiples ==
  ASSUME NEW t \in Nat, NEW n \in Nat \ {0}
  PROVE  /\ t * n \in Nat /\ (t + 1) * n = t * n + n /\ t <= t * n
OBVIOUS

LEMMA LoopLeaves ==
  ASSUME NEW K, NEW V, NEW n, LoopSetting(K, V, n), NEW f, IsLoop(K, V, n, f)
  PROVE  Leaves(K, GroupSize, f[GroupSize])
<1> DEFINE g == GroupSize
           S == {t \in 0..g : Leaves(K, t * n, f[t])}
<1>1. g \in Nat /\ n \in Nat \ {0} /\ WellFormed(K)
  BY GroupSizeAssumption DEF LoopSetting
<1>2. f[0] = Memory /\ \A t \in 1..g : f[t] = VectorCall(K, V, n, (t - 1) * n, f[t - 1])
  <2>1. 0 \in 0..g /\ \A t \in 1..g : t \in 0..g /\ t # 0
    BY <1>1
  <2> QED BY <2>1 DEF IsLoop
<1> HIDE DEF g
<1>3. 0 \in S
  <2>1. 0 * n = 0
    BY <1>1
  <2>2. Leaves(K, 0, Memory)
    BY MemoryType DEF Leaves
  <2> QED BY <1>1, <1>2, <2>1, <2>2
<1>4. ASSUME NEW k \in 0..(g - 1), k \in S PROVE k + 1 \in S
  <2>1. k + 1 \in 1..g /\ (k + 1) - 1 = k /\ k + 1 \in 0..g /\ k \in Nat
    BY <1>1
  <2>2. f[k + 1] = VectorCall(K, V, n, k * n, f[k])
    BY <1>2, <2>1
  <2>3. k * n \in Nat /\ (k + 1) * n = k * n + n
    BY <1>1, <2>1, Multiples
  <2>4. Leaves(K, k * n, f[k])
    BY <1>4
  <2> DEFINE b == k * n
  <2> HIDE DEF b
  <2>5. Leaves(K, b + n, VectorCall(K, V, n, b, f[k]))
    BY <2>3, <2>4, LoopStep DEF b
  <2> QED BY <2>1, <2>2, <2>3, <2>5 DEF b
<1>5. 0..g \subseteq S
  <2> HIDE DEF S
  <2>1. \A k \in 0..(g - 1) : k \in S => k + 1 \in S
    BY <1>4
  <2> QED BY <1>1, <1>3, <2>1, Upwards
<1>6. Leaves(K, g * n, f[g])
  <2>1. g \in 0..g
    BY <1>1
  <2> QED BY <1>5, <2>1
<1>7. \A u \in 0..(g - 1) : u < g /\ u < g * n
  <2>1. g * n \in Nat /\ g <= g * n
    BY <1>1, Multiples
  <2> DEFINE e == g * n
  <2> HIDE DEF e
  <2>2. \A u \in 0..(g - 1) : u < g /\ u < e
    BY <1>1, <2>1 DEF e
  <2> QED BY <2>2 DEF e
<1> QED BY <1>6, <1>7 DEF Leaves, g

LEMMA LoopsAgree ==
  ASSUME NEW K, NEW V, NEW n, LoopSetting(K, V, n)
  PROVE  VectorResult(K, V, n) = ScalarResult(K)
<1>1. LoopSetting(K, {}, 1)
  BY DEF LoopSetting, VectorSet
<1>2. Leaves(K, GroupSize, VectorResult(K, V, n))
  BY LoopOfResult, LoopLeaves
<1>3. Leaves(K, GroupSize, ScalarResult(K))
  <2>1. PICK f : IsLoop(K, {}, 1, f) /\ ScalarResult(K) = f[GroupSize]
    BY LoopOfScalarResult
  <2> DEFINE V0 == {}
             n0 == 1
  <2>2. LoopSetting(K, V0, n0) /\ IsLoop(K, V0, n0, f)
    BY <1>1, <2>1
  <2> HIDE DEF V0, n0
  <2> QED BY <2>1, <2>2, LoopLeaves
<1> DEFINE a == VectorResult(K, V, n)
           b == ScalarResult(K)
<1>4. a \in [Cells -> Int] /\ b \in [Cells -> Int]
  BY <1>2, <1>3 DEF Leaves
<1> HIDE DEF a, b
<1>5. ASSUME NEW c \in Cells PROVE a[c] = b[c]
  <2>1. CASE \E u \in 0..(GroupSize - 1) : u < GroupSize /\ c \in Item(K, u).written
    BY <1>2, <1>3, <2>1 DEF Leaves, a, b
  <2>2. CASE \A u \in 0..(GroupSize - 1) : u < GroupSize => c \notin Item(K, u).written
    BY <1>2, <1>3, <2>2 DEF Leaves, a, b
  <2> QED BY <2>1, <2>2
<1>6. a = b
  BY <1>4, <1>5
<1> QED BY <1>6 DEF a, b
-----------------------------------------------------------------------------
LEMMA CloneIsLoop ==
  ASSUME VecInv, vectorized > 0, Regular, Independent
  PROVE  LoopSetting(F, Erased, vectorized)
<1>1. KernelType /\ Done /\ WellFormed(F)
  BY DEF VecInv, KernelType
<1>2. vectorized \in Nat \ {0}
  BY <1>1 DEF KernelType, Pending, Walking
<1>3. VectorSet(F, Erased)
  <2>1. \A v \in Erased : v \in DOMAIN F
    BY <1>1 DEF Done, EraseInv, Erased, Range
  <2>2. ASSUME NEW v \in Erased PROVE F[v].op \in {"load", "store"} \cup Arithmetic
    BY <1>1, <2>2 DEF Done, EraseInv, MapInv
  <2>3. ASSUME NEW v \in Erased, NEW o \in DOMAIN F[v].opnds
        PROVE  F[v].opnds[o] \in Erased \/ F[F[v].opnds[o]].op = "arg"
    <3>1. F[v].opnds[o] \in Entries
      BY <1>1, <2>3 DEF Done, EraseInv, Range
    <3> QED BY <1>1, <3>1 DEF Done, MapInv
  <2> QED BY <2>1, <2>2, <2>3 DEF VectorSet, Regular
<1>4. UniformBlocks(F)
  BY DEF UniformBlocks, Regular
<1>5. Disjoint(F, 0..(GroupSize - 1))
  <2> DEFINE T == 0..(GroupSize - 1)
             call == [t \in T |-> ScalarCall(F, t, Memory)]
  <2>1. \A t \in T : call[t] = Item(F, t)
    BY DEF ScalarCall, RunCall, Item, ItemRun
  <2>2. DOMAIN Memory = Cells
    BY DEF Memory, Cells
  <2>3. \A t \in T : /\ call[t].read \cup call[t].written \subseteq Cells
                     /\ \A u \in T \ {t} : call[t].written \cap (call[u].read \cup call[u].written) = {}
    BY <2>2 DEF Independent
  <2> HIDE DEF T, call
  <2>4. Disjoint(F, T)
    BY <2>1, <2>3 DEF Disjoint
  <2> QED BY <2>4 DEF T
<1>6. \A v \in DOMAIN F : F[v].op = "store" => v \in Erased
  BY <1>1 DEF Done
<1> QED BY <1>1, <1>2, <1>3, <1>4, <1>5, <1>6 DEF LoopSetting

(* If what is left in the clone uses nothing that was erased, addresses go  *)
(* with the work item, conditions do not, and no item touches what another  *)
(* one writes, then the wrapper's loop over the clone, with the lanes that  *)
(* whilelo leaves active, leaves the memory that one call of the scalar     *)
(* kernel per work item leaves: for every group size and vector length.     *)
THEOREM VectorMatchesScalarHolds == Spec => []VectorMatchesScalar
<1>1. VecInv => VectorMatchesScalar
  BY CloneIsLoop, LoopsAgree DEF VectorMatchesScalar
<1> QED BY <1>1, VecInvHolds, PTL
===============================================================================
