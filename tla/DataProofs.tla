----------------------------- MODULE DataProofs -----------------------------
(***************************************************************************)
(* Facts about the two modules without a state of their own: the index      *)
(* arithmetic of NDRange, for all sizes, and the maps of counts of RefMap.  *)
(***************************************************************************)
EXTENDS NDRange, RefMap, TLAPS

(* What retain(), release() and a new entry do to a map of counts.          *)
LEMMA AddedFacts ==
  ASSUME NEW D, NEW Map \in [D -> Nat \ {0}], NEW p, p \notin D
  PROVE  /\ Added(Map, p) \in [D \cup {p} -> Nat \ {0}]
         /\ Added(Map, p)[p] = 1
         /\ \A q \in D : Added(Map, p)[q] = Map[q]
BY DEF Added

LEMMA RetainedFacts ==
  ASSUME NEW D, NEW Map \in [D -> Nat \ {0}], NEW p \in D
  PROVE  /\ Retained(Map, p) \in [D -> Nat \ {0}]
         /\ Retained(Map, p)[p] = Map[p] + 1
         /\ \A q \in D \ {p} : Retained(Map, p)[q] = Map[q]
BY DEF Retained

LEMMA ReleasedFacts ==
  ASSUME NEW D, NEW Map \in [D -> Nat \ {0}], NEW p \in D
  PROVE  /\ Map[p] = 1 => /\ DOMAIN Released(Map, p) = D \ {p}
                          /\ Released(Map, p) \in [D \ {p} -> Nat \ {0}]
         /\ Map[p] # 1 => /\ DOMAIN Released(Map, p) = D
                          /\ Released(Map, p) \in [D -> Nat \ {0}]
                          /\ Released(Map, p)[p] = Map[p] - 1
         /\ \A q \in D \ {p} : Released(Map, p)[q] = Map[q]
BY DEF Released, IsLast

-----------------------------------------------------------------------------
(* Division with remainder by a positive number.                            *)
LEMMA DivMod ==
  ASSUME NEW a \in Nat, NEW b \in Nat \ {0}
  PROVE  /\ a \div b \in Nat
         /\ a % b \in 0..(b - 1)
         /\ a = b * (a \div b) + (a % b)
  BY SMT

LEMMA MulMono ==
  ASSUME NEW a \in Nat, NEW b \in Nat, NEW c \in Nat, a <= b
  PROVE  a * c <= b * c
  BY SMT

(* Quotient and remainder are determined by the number.                     *)
LEMMA DivUnique ==
  ASSUME NEW b \in Nat \ {0}, NEW p \in Nat, NEW q \in Nat,
         NEW m \in 0..(b - 1), NEW n \in 0..(b - 1), p * b + m = q * b + n
  PROVE  p = q /\ m = n
<1>1. CASE p < q
  <2>1. (p + 1) * b <= q * b
    BY <1>1, MulMono
  <2>2. (p + 1) * b = p * b + b
    BY SMT
  <2>3. p * b \in Nat /\ q * b \in Nat
    BY SMT
  <2> QED BY <2>1, <2>2, <2>3
<1>2. CASE q < p
  <2>1. (q + 1) * b <= p * b
    BY <1>2, MulMono
  <2>2. (q + 1) * b = q * b + b
    BY SMT
  <2>3. p * b \in Nat /\ q * b \in Nat
    BY SMT
  <2> QED BY <2>1, <2>2, <2>3
<1>3. CASE p = q
  BY <1>3
<1> QED BY <1>1, <1>2, <1>3

(* Dividing by a product is dividing twice.                                 *)
LEMMA DivDiv ==
  ASSUME NEW a \in Nat, NEW b \in Nat \ {0}, NEW c \in Nat \ {0}
  PROVE  (a \div b) \div c = a \div (b * c)
<1> DEFINE q == a \div b
           r == a % b
           s == q \div c
           t == q % c
           d == b * c
           u == a \div d
           v == a % d
<1>1. d \in Nat \ {0}
  BY SMT
<1>2. q \in Nat /\ r \in 0..(b - 1) /\ a = b * q + r
  BY DivMod
<1>3. s \in Nat /\ t \in 0..(c - 1) /\ q = c * s + t
  BY <1>2, DivMod
<1>4. u \in Nat /\ v \in 0..(d - 1) /\ a = d * u + v
  BY <1>1, DivMod
<1> HIDE DEF q, r, s, t, u, v
<1>5. a = (b * c) * s + (b * t + r)
  <2>1. b * (c * s + t) = b * (c * s) + b * t
    BY <1>3
  <2>2. b * (c * s) = (b * c) * s
    BY <1>3
  <2> QED BY <1>2, <1>3, <2>1, <2>2
<1>6. b * t + r \in 0..(d - 1)
  <2>1. (t + 1) * b <= c * b
    BY <1>3, MulMono
  <2>2. (t + 1) * b = b * t + b /\ c * b = d
    BY <1>3
  <2>3. b * t \in Nat
    BY <1>3
  <2> QED BY <1>1, <1>2, <2>1, <2>2, <2>3
<1> DEFINE w == b * t + r
<1>7. w \in 0..(d - 1) /\ a = s * d + w
  <2>1. (b * c) * s = s * d
    BY <1>3
  <2> QED BY <2>1, <1>5, <1>6
<1>8. a = u * d + v
  <2>1. d * u = u * d
    BY <1>1, <1>4
  <2> QED BY <2>1, <1>4
<1> HIDE DEF d, w
<1>9. s = u
  BY <1>1, <1>3, <1>4, <1>7, <1>8, DivUnique
<1> QED BY <1>9 DEF s, u, q, d

(* Chunks exist and are as large as they need to be: the chunks of all T    *)
(* ULTs together reach the local size, and none of them is empty unless the *)
(* group is.                                                                *)
LEMMA ChunkSizeFacts ==
  ASSUME NEW L \in Nat, NEW T \in Nat \ {0}
  PROVE  /\ ChunkSize(L, T) \in Nat
         /\ L <= T * ChunkSize(L, T)
         /\ L > 0 => ChunkSize(L, T) > 0
<1> DEFINE q == L \div T
           m == L % T
<1>1. q \in Nat /\ m \in 0..(T - 1) /\ L = T * q + m
  BY DivMod
<1>2. CASE m = 0
  BY <1>1, <1>2 DEF ChunkSize
<1>3. CASE m # 0
  <2>1. ChunkSize(L, T) = q + 1
    BY <1>1, <1>3 DEF ChunkSize
  <2>2. T * (q + 1) = T * q + T
    BY <1>1
  <2> QED BY <1>1, <2>1, <2>2
<1> QED BY <1>2, <1>3

(* Every local id of the chunked dimension belongs to the bounds of exactly *)
(* one ULT: chunks cover the work group and do not overlap.                 *)
THEOREM ChunksPartition ==
  ASSUME NEW L \in Nat, NEW T \in Nat \ {0}, NEW i \in 0..(L - 1)
  PROVE  \E t \in 0..(T - 1) :
           /\ LowerBound(L, T, t) <= i /\ i < UpperBound(L, T, t)
           /\ \A u \in 0..(T - 1) :
                LowerBound(L, T, u) <= i /\ i < UpperBound(L, T, u) => u = t
<1> DEFINE C == ChunkSize(L, T)
           t == i \div C
<1>1. C \in Nat \ {0} /\ L <= T * C
  BY ChunkSizeFacts
<1> HIDE DEF C
<1>2. t \in Nat /\ i % C \in 0..(C - 1) /\ i = C * t + (i % C)
  <2>1. i \in Nat
    OBVIOUS
  <2> QED BY <1>1, <2>1, DivMod, Zenon
<1> HIDE DEF t
<1>3. t * C <= i /\ i < t * C + C
  <2>1. t * C = C * t
    BY <1>1, <1>2
  <2> QED BY <2>1, <1>1, <1>2
<1>4. t \in 0..(T - 1)
  <2>1. SUFFICES ASSUME T <= t PROVE FALSE
    BY <1>2
  <2>2. T * C <= t * C
    BY <2>1, <1>1, <1>2, MulMono
  <2> QED BY <2>2, <1>1, <1>2, <1>3
<1>5. ASSUME NEW u \in 0..(T - 1)
      PROVE  /\ LowerBound(L, T, u) = u * C
             /\ UpperBound(L, T, u) = IF u * C + C > L THEN L ELSE u * C + C
  BY DEF LowerBound, UpperBound, C
<1>6. LowerBound(L, T, t) <= i /\ i < UpperBound(L, T, t)
  BY <1>1, <1>2, <1>3, <1>4, <1>5
<1>7. ASSUME NEW u \in 0..(T - 1), LowerBound(L, T, u) <= i, i < UpperBound(L, T, u)
      PROVE  u = t
  <2>1. u * C <= i /\ i < u * C + C
    BY <1>1, <1>5, <1>7
  <2>2. CASE u < t
    <3>1. (u + 1) * C <= t * C
      BY <2>2, <1>1, <1>2, MulMono
    <3>2. (u + 1) * C = u * C + C
      BY <1>1
    <3> QED BY <3>1, <3>2, <2>1, <1>1, <1>2, <1>3
  <2>3. CASE t < u
    <3>1. (t + 1) * C <= u * C
      BY <2>3, <1>1, <1>2, MulMono
    <3>2. (t + 1) * C = t * C + C
      BY <1>1, <1>2
    <3> QED BY <3>1, <3>2, <2>1, <1>1, <1>2, <1>3
  <2> QED BY <2>2, <2>3, <1>2
<1> QED BY <1>4, <1>6, <1>7

-----------------------------------------------------------------------------
(* The indices of a loop nest stay vectors of natural numbers.              *)

LEMMA LoopStartType ==
  ASSUME NEW r, \A d \in 1..r.dim : r.lsz[d] \in Nat,
         NEW T \in Nat \ {0}, NEW tid \in Nat, NEW d \in Dims
  PROVE  LoopStart(r, T, tid, d) \in Nat
<1>1. CASE d = r.dim
  <2>1. r.lsz[d] \in Nat
    BY <1>1 DEF Dims
  <2>2. ChunkSize(r.lsz[d], T) \in Nat
    BY <2>1, ChunkSizeFacts
  <2> QED BY <1>1, <2>2 DEF LoopStart, LowerBound
<1>2. CASE d # r.dim
  BY <1>2 DEF LoopStart
<1> QED BY <1>1, <1>2

LEMMA FirstIndexType ==
  ASSUME NEW r, \A d \in 1..r.dim : r.lsz[d] \in Nat,
         NEW T \in Nat \ {0}, NEW tid \in Nat
  PROVE  FirstIndex(r, T, tid) \in [Dims -> Nat]
BY LoopStartType DEF FirstIndex

LEMMA NextIndexType ==
  ASSUME NEW r, \A d \in 1..r.dim : r.lsz[d] \in Nat,
         NEW T \in Nat \ {0}, NEW tid \in Nat, NEW VL \in Nat,
         NEW ind \in [Dims -> Nat], ~LoopDone(r, T, tid, VL, ind)
  PROVE  NextIndex(r, T, tid, VL, ind) \in [Dims -> Nat]
<1> DEFINE Least(e) == /\ Continues(r, T, tid, VL, ind, e)
                       /\ \A f \in Dims : f < e => ~Continues(r, T, tid, VL, ind, f)
           d == CHOOSE e \in Dims : Least(e)
<1>1. \E e \in Dims : Least(e)
  <2>1. \E e \in Dims : Continues(r, T, tid, VL, ind, e)
    BY DEF LoopDone
  <2> QED BY <2>1 DEF Dims
<1>2. d \in Dims
  BY <1>1
<1>3. ASSUME NEW e \in Dims PROVE LoopStart(r, T, tid, e) \in Nat
  BY LoopStartType
<1>4. NextVal(VL, ind, d) \in Nat
  BY <1>2 DEF NextVal
<1>5. NextIndex(r, T, tid, VL, ind) =
        [e \in Dims |-> IF e < d THEN LoopStart(r, T, tid, e)
                        ELSE IF e = d THEN NextVal(VL, ind, e) ELSE ind[e]]
  BY DEF NextIndex
<1> HIDE DEF d
<1> QED BY <1>2, <1>3, <1>4, <1>5 DEF Dims

-----------------------------------------------------------------------------
(* What a loop nest does, for all launches, numbers of ULTs and vector      *)
(* lengths: its order, and which local ids it works on.                     *)

LaunchType(r) ==
  /\ r.dim \in Dims
  /\ r.offs \in [1..r.dim -> Nat]
  /\ r.gsz \in [1..r.dim -> Nat]
  /\ r.lsz \in [1..r.dim -> Nat \ {0}]

(* The local ids of a work group, and those in the bounds of one ULT.       *)
LocalIds(r) == {l \in [Dims -> Nat] : \A d \in Dims : l[d] < LocalSize(r, d)}

Nest(r, T, tid) ==
  {l \in [Dims -> Nat] : \A d \in Dims : /\ LoopStart(r, T, tid, d) <= l[d]
                                         /\ l[d] < LoopEnd(r, T, tid, d)}

(* The order of the nest: dimension 1 is innermost.                         *)
Before(l, ind) ==
  \/ l[3] < ind[3]
  \/ l[3] = ind[3] /\ l[2] < ind[2]
  \/ l[3] = ind[3] /\ l[2] = ind[2] /\ l[1] < ind[1]

(* The local ids of one vector step, before the mask.                       *)
InVector(VL, ind, l) ==
  l[3] = ind[3] /\ l[2] = ind[2] /\ ind[1] <= l[1] /\ l[1] < ind[1] + VL

LEMMA LocalSizeType ==
  ASSUME NEW r, LaunchType(r), NEW d \in Dims
  PROVE  /\ LocalSize(r, d) \in Nat \ {0}
         /\ d <= r.dim => LocalSize(r, d) = r.lsz[d] /\ r.lsz[d] \in Nat \ {0}
         /\ d > r.dim => LocalSize(r, d) = 1
BY DEF LaunchType, LocalSize, Dims

LEMMA BoundsType ==
  ASSUME NEW r, LaunchType(r), NEW T \in Nat \ {0}, NEW tid \in Nat, NEW d \in Dims
  PROVE  /\ LoopStart(r, T, tid, d) \in Nat
         /\ LoopEnd(r, T, tid, d) \in Nat
         /\ LoopEnd(r, T, tid, d) <= LocalSize(r, d)
         /\ d # r.dim => /\ LoopStart(r, T, tid, d) = 0
                         /\ LoopEnd(r, T, tid, d) = LocalSize(r, d)
<1>1. r.dim \in Dims
  BY DEF LaunchType
<1>2. CASE d = r.dim
  <2> DEFINE L == r.lsz[d]
             C == ChunkSize(L, T)
  <2>1. L \in Nat \ {0} /\ LocalSize(r, d) = L
    BY <1>1, <1>2, LocalSizeType DEF Dims
  <2>2. C \in Nat
    BY <2>1, ChunkSizeFacts
  <2>3. LoopStart(r, T, tid, d) = tid * C
    BY <1>2 DEF LoopStart, LowerBound
  <2>4. LoopEnd(r, T, tid, d) = IF tid * C + C > L THEN L ELSE tid * C + C
    BY <1>2 DEF LoopEnd, UpperBound, LowerBound
  <2> HIDE DEF L, C
  <2>5. tid * C \in Nat
    BY <2>2
  <2> QED BY <1>2, <2>1, <2>2, <2>3, <2>4, <2>5
<1>3. CASE d # r.dim
  <2>1. LocalSize(r, d) \in Nat
    BY LocalSizeType
  <2> QED BY <1>3, <2>1 DEF LoopStart, LoopEnd
<1> QED BY <1>2, <1>3

(* From ind to n, where S and E are the bounds of the loops.                *)
GoesOn(S, E, VL, ind, n) ==
  \/ /\ ind[1] + VL < E[1]
     /\ n[1] = ind[1] + VL /\ n[2] = ind[2] /\ n[3] = ind[3]
  \/ /\ ind[1] + VL >= E[1] /\ ind[2] + 1 < E[2]
     /\ n[1] = S[1] /\ n[2] = ind[2] + 1 /\ n[3] = ind[3]
  \/ /\ ind[1] + VL >= E[1] /\ ind[2] + 1 >= E[2] /\ ind[3] + 1 < E[3]
     /\ n[1] = S[1] /\ n[2] = S[2] /\ n[3] = ind[3] + 1

(* The loop that goes on: the innermost one that continues.                 *)
LEMMA NextIndexFacts ==
  ASSUME NEW r, LaunchType(r), NEW T \in Nat \ {0}, NEW tid \in Nat, NEW VL \in Nat \ {0},
         NEW ind \in [Dims -> Nat], ~LoopDone(r, T, tid, VL, ind),
         NEW S \in [Dims -> Nat], \A d \in Dims : S[d] = LoopStart(r, T, tid, d),
         NEW E \in [Dims -> Nat], \A d \in Dims : E[d] = LoopEnd(r, T, tid, d),
         NEW n, n = NextIndex(r, T, tid, VL, ind)
  PROVE  /\ n \in [Dims -> Nat]
         /\ GoesOn(S, E, VL, ind, n)
<1> DEFINE Least(e) == /\ Continues(r, T, tid, VL, ind, e)
                       /\ \A f \in Dims : f < e => ~Continues(r, T, tid, VL, ind, f)
           d == CHOOSE e \in Dims : Least(e)
<1>1. \E e \in Dims : Least(e)
  <2>1. \E e \in Dims : Continues(r, T, tid, VL, ind, e)
    BY DEF LoopDone
  <2> QED BY <2>1 DEF Dims
<1>2. d \in Dims /\ Least(d)
  BY <1>1
<1>3. n = [e \in Dims |-> IF e < d THEN S[e] ELSE IF e = d THEN NextVal(VL, ind, e) ELSE ind[e]]
  <2>1. n = [e \in Dims |-> IF e < d THEN LoopStart(r, T, tid, e)
                            ELSE IF e = d THEN NextVal(VL, ind, e) ELSE ind[e]]
    BY DEF NextIndex
  <2> HIDE DEF d
  <2> QED BY <2>1
<1>4. /\ \A e \in Dims : S[e] \in Nat /\ E[e] \in Nat
      /\ 1 \in Dims /\ 2 \in Dims /\ 3 \in Dims
      /\ S \in [Dims -> Nat] /\ E \in [Dims -> Nat]
  BY BoundsType DEF Dims
<1>5. /\ Continues(r, T, tid, VL, ind, 1) <=> ind[1] + VL < E[1]
      /\ Continues(r, T, tid, VL, ind, 2) <=> ind[2] + 1 < E[2]
      /\ Continues(r, T, tid, VL, ind, 3) <=> ind[3] + 1 < E[3]
      /\ NextVal(VL, ind, 1) = ind[1] + VL
      /\ NextVal(VL, ind, 2) = ind[2] + 1 /\ NextVal(VL, ind, 3) = ind[3] + 1
  BY <1>4 DEF Continues, NextVal
<1>6. n[1] \in Nat /\ n[2] \in Nat /\ n[3] \in Nat => n \in [Dims -> Nat]
  <2> HIDE DEF d
  <2> QED BY <1>3, <1>4 DEF Dims
<1> HIDE DEF d
<1>7. CASE d = 1
  <2>1. n[1] = ind[1] + VL /\ n[2] = ind[2] /\ n[3] = ind[3] /\ ind[1] + VL < E[1]
    BY <1>2, <1>3, <1>4, <1>5, <1>7
  <2>2. n \in [Dims -> Nat]
    BY <1>4, <1>6, <2>1
  <2> QED BY <1>4, <2>1, <2>2 DEF GoesOn
<1>8. CASE d = 2
  <2>1. /\ n[1] = S[1] /\ n[2] = ind[2] + 1 /\ n[3] = ind[3]
        /\ ~(ind[1] + VL < E[1]) /\ ind[2] + 1 < E[2]
    BY <1>2, <1>3, <1>4, <1>5, <1>8
  <2>2. n \in [Dims -> Nat] /\ ind[1] + VL >= E[1]
    BY <1>4, <1>6, <2>1
  <2> QED BY <1>4, <2>1, <2>2 DEF GoesOn
<1>9. CASE d = 3
  <2>1. /\ n[1] = S[1] /\ n[2] = S[2] /\ n[3] = ind[3] + 1
        /\ ~(ind[1] + VL < E[1]) /\ ~(ind[2] + 1 < E[2]) /\ ind[3] + 1 < E[3]
    BY <1>2, <1>3, <1>4, <1>5, <1>9
  <2>2. n \in [Dims -> Nat] /\ ind[1] + VL >= E[1] /\ ind[2] + 1 >= E[2]
    BY <1>4, <1>6, <2>1
  <2> QED BY <1>4, <2>1, <2>2 DEF GoesOn
<1> QED BY <1>2, <1>4, <1>7, <1>8, <1>9 DEF Dims

(* A nest starts before all its local ids, what a step goes past is in its  *)
(* vector, and when it ends it is past all of them.                         *)
LEMMA NestStarts ==
  ASSUME NEW r, LaunchType(r), NEW T \in Nat \ {0}, NEW tid \in Nat, NEW l \in Nest(r, T, tid)
  PROVE  ~Before(l, FirstIndex(r, T, tid))
<1>1. \A d \in Dims : LoopStart(r, T, tid, d) \in Nat
  BY BoundsType
<1>2. \A d \in Dims : FirstIndex(r, T, tid)[d] = LoopStart(r, T, tid, d)
  BY DEF FirstIndex
<1>3. \A d \in Dims : l[d] \in Nat /\ LoopStart(r, T, tid, d) <= l[d]
  BY DEF Nest
<1>4. 1 \in Dims /\ 2 \in Dims /\ 3 \in Dims
  BY DEF Dims
<1> QED BY <1>1, <1>2, <1>3, <1>4 DEF Before

LEMMA NestSteps ==
  ASSUME NEW r, LaunchType(r), NEW T \in Nat \ {0}, NEW tid \in Nat, NEW VL \in Nat \ {0},
         NEW ind \in [Dims -> Nat], ~LoopDone(r, T, tid, VL, ind),
         NEW l \in Nest(r, T, tid), Before(l, NextIndex(r, T, tid, VL, ind))
  PROVE  Before(l, ind) \/ InVector(VL, ind, l)
<1> DEFINE S == [d \in Dims |-> LoopStart(r, T, tid, d)]
           E == [d \in Dims |-> LoopEnd(r, T, tid, d)]
           n == NextIndex(r, T, tid, VL, ind)
<1>1. 1 \in Dims /\ 2 \in Dims /\ 3 \in Dims
  BY DEF Dims
<1>2. \A d \in Dims : l[d] \in Nat /\ S[d] <= l[d] /\ l[d] < E[d] /\ ind[d] \in Nat
  BY DEF Nest
<1>3. Before(l, n)
  OBVIOUS
<1>4. /\ S \in [Dims -> Nat] /\ \A d \in Dims : S[d] = LoopStart(r, T, tid, d)
      /\ E \in [Dims -> Nat] /\ \A d \in Dims : E[d] = LoopEnd(r, T, tid, d)
      /\ n = NextIndex(r, T, tid, VL, ind)
  BY BoundsType
<1> HIDE DEF S, E, n
<1>5. /\ n \in [Dims -> Nat]
      /\ GoesOn(S, E, VL, ind, n)
  BY <1>4, NextIndexFacts
<1> QED BY <1>1, <1>2, <1>3, <1>4, <1>5 DEF Before, InVector, GoesOn

LEMMA NestDone ==
  ASSUME NEW r, LaunchType(r), NEW T \in Nat \ {0}, NEW tid \in Nat, NEW VL \in Nat \ {0},
         NEW ind \in [Dims -> Nat], LoopDone(r, T, tid, VL, ind), NEW l \in Nest(r, T, tid)
  PROVE  Before(l, ind) \/ InVector(VL, ind, l)
<1> DEFINE E(e) == LoopEnd(r, T, tid, e)
<1>1. 1 \in Dims /\ 2 \in Dims /\ 3 \in Dims
  BY DEF Dims
<1>2. ~(ind[1] + VL < E(1)) /\ ~(ind[2] + 1 < E(2)) /\ ~(ind[3] + 1 < E(3))
  BY <1>1 DEF LoopDone, Continues, NextVal
<1>3. \A d \in Dims : E(d) \in Nat /\ l[d] \in Nat /\ l[d] < E(d)
  BY BoundsType DEF Nest
<1>4. ind[1] \in Nat /\ ind[2] \in Nat /\ ind[3] \in Nat
  BY <1>1
<1> HIDE DEF E
<1> QED BY <1>1, <1>2, <1>3, <1>4 DEF Before, InVector

(* Every local id of a group is in the nest of one of its ULTs.             *)
LEMMA NestsCover ==
  ASSUME NEW r, LaunchType(r), NEW T \in Nat \ {0}, NEW l \in LocalIds(r)
  PROVE  \E tid \in 0..(T - 1) : l \in Nest(r, T, tid)
<1> DEFINE L == r.lsz[r.dim]
           i == l[r.dim]
<1>1. r.dim \in Dims
  BY DEF LaunchType
<1>2. L \in Nat \ {0} /\ LocalSize(r, r.dim) = L
  BY <1>1, LocalSizeType DEF Dims
<1>3. i \in 0..(L - 1)
  BY <1>1, <1>2 DEF LocalIds
<1>4. PICK tid \in 0..(T - 1) : LowerBound(L, T, tid) <= i /\ i < UpperBound(L, T, tid)
  <2> HIDE DEF L, i
  <2> QED BY <1>2, <1>3, ChunksPartition
<1>5. ASSUME NEW d \in Dims PROVE LoopStart(r, T, tid, d) <= l[d] /\ l[d] < LoopEnd(r, T, tid, d)
  <2>1. CASE d = r.dim
    BY <1>4, <2>1 DEF LoopStart, LoopEnd
  <2>2. CASE d # r.dim
    BY <2>2, BoundsType DEF LocalIds
  <2> QED BY <2>1, <2>2
<1> QED BY <1>4, <1>5 DEF Nest, LocalIds

(* The mask lets a vector step work on every local id of the nest.          *)
LEMMA NestUnmasked ==
  ASSUME NEW r, LaunchType(r), NEW T \in Nat \ {0}, NEW tid \in Nat, NEW VL \in Nat \ {0},
         NEW ind \in [Dims -> Nat], NEW l \in Nest(r, T, tid), InVector(VL, ind, l), NEW wg
  PROVE  GlobalId(r, wg, l) \in VectorItems(r, VL, wg, ind)
<1> DEFINE k == l[1] - ind[1]
<1>1. 1 \in Dims /\ 2 \in Dims /\ 3 \in Dims /\ 1 <= r.dim
  BY DEF Dims, LaunchType
<1>2. l \in [Dims -> Nat] /\ l[1] < LocalSize(r, 1)
  <2>1. LoopEnd(r, T, tid, 1) \in Nat /\ LoopEnd(r, T, tid, 1) <= LocalSize(r, 1)
    BY <1>1, BoundsType
  <2>2. l \in [Dims -> Nat] /\ l[1] < LoopEnd(r, T, tid, 1) /\ l[1] \in Nat
    BY <1>1 DEF Nest
  <2>3. LocalSize(r, 1) \in Nat
    BY <1>1, LocalSizeType
  <2> QED BY <2>1, <2>2, <2>3
<1>3. LocalSize(r, 1) = r.lsz[1]
  BY <1>1, LocalSizeType
<1>4. k \in 0..(VL - 1) /\ ind[1] + k = l[1]
  BY <1>1, <1>2 DEF InVector
<1>5. k \in ActiveLanes(r, VL, ind)
  BY <1>2, <1>3, <1>4 DEF ActiveLanes
<1>6. [ind EXCEPT ![1] = @ + k] = l
  BY <1>1, <1>2, <1>4 DEF Dims, InVector
<1> HIDE DEF k
<1>7. GlobalId(r, wg, l) = GlobalId(r, wg, [ind EXCEPT ![1] = @ + k])
  BY <1>6
<1> QED BY <1>5, <1>7 DEF VectorItems

(* A work item of a group is the global id of one of its local ids.         *)
LEMMA GroupItemsAreLocal ==
  ASSUME NEW r, LaunchType(r), NEW wg, NEW c \in GroupItems(r, wg)
  PROVE  \E l \in LocalIds(r) : c = GlobalId(r, wg, l)
<1> DEFINE l == [d \in Dims |-> IF d <= r.dim THEN (c[d] - r.offs[d]) % r.lsz[d] ELSE 0]
<1>1. PICK x \in Ids(r, 1), y \in Ids(r, 2), z \in Ids(r, 3) : c = <<x, y, z>>
  BY DEF GroupItems, ItemsOf
<1>2. r.dim \in Dims
  BY DEF LaunchType
<1>3. ASSUME NEW d \in Dims
      PROVE  /\ l[d] \in Nat /\ l[d] < LocalSize(r, d)
             /\ GlobalId(r, wg, l)[d] = c[d]
  <2>1. c[d] \in Ids(r, d)
    BY <1>1 DEF Dims
  <2>2. CASE d <= r.dim
    <3> DEFINE a == c[d] - r.offs[d]
               b == r.lsz[d]
    <3>1. d \in 1..r.dim
      BY <1>2, <2>2 DEF Dims
    <3>2. r.offs[d] \in Nat /\ b \in Nat \ {0} /\ r.gsz[d] \in Nat
      BY <3>1 DEF LaunchType
    <3>3. c[d] \in Int /\ a \in Nat
      BY <2>1, <2>2, <3>2 DEF Ids
    <3>4. a \div b = wg[d]
      BY <3>1 DEF GroupItems
    <3>5. l[d] = a % b /\ LocalSize(r, d) = b
      BY <2>2 DEF LocalSize
    <3>6. GlobalId(r, wg, l)[d] = wg[d] * b + l[d] + r.offs[d]
      BY <2>2 DEF GlobalId
    <3>7. c[d] = a + r.offs[d]
      BY <3>2, <3>3
    <3> HIDE DEF a, b, l
    <3>8. a \div b \in Nat /\ a % b \in 0..(b - 1) /\ a = b * (a \div b) + (a % b)
      BY <3>2, <3>3, DivMod
    <3>9. wg[d] * b = b * (a \div b)
      BY <3>2, <3>4, <3>8
    <3> QED BY <3>2, <3>3, <3>5, <3>6, <3>7, <3>8, <3>9
  <2>3. CASE d > r.dim
    <3>1. c[d] = 0
      BY <1>2, <2>1, <2>3 DEF Ids, Dims
    <3> QED BY <1>2, <2>3, <3>1 DEF LocalSize, GlobalId, Dims
  <2> QED BY <1>2, <2>2, <2>3 DEF Dims
<1>4. l \in LocalIds(r)
  <2>1. DOMAIN l = Dims /\ l = [d \in Dims |-> l[d]]
    OBVIOUS
  <2> HIDE DEF l
  <2> QED BY <1>3, <2>1 DEF LocalIds
<1>5. GlobalId(r, wg, l) = c
  <2> DEFINE g == GlobalId(r, wg, l)
  <2>1. g = [d \in Dims |-> g[d]]
    BY DEF GlobalId
  <2>2. g[1] = x /\ g[2] = y /\ g[3] = z
    BY <1>1, <1>3 DEF Dims
  <2> HIDE DEF g, l
  <2>3. g = <<x, y, z>>
    BY <2>1, <2>2 DEF Dims
  <2> QED BY <1>1, <2>3 DEF g
<1> QED BY <1>4, <1>5

LEMMA NestIsLocal ==
  ASSUME NEW r, LaunchType(r), NEW T \in Nat \ {0}, NEW tid \in Nat, NEW l \in Nest(r, T, tid)
  PROVE  l \in LocalIds(r)
<1>1. ASSUME NEW d \in Dims PROVE l[d] < LocalSize(r, d)
  <2>1. LoopEnd(r, T, tid, d) \in Nat /\ LoopEnd(r, T, tid, d) <= LocalSize(r, d)
    BY BoundsType
  <2>2. l[d] \in Nat /\ l[d] < LoopEnd(r, T, tid, d)
    BY DEF Nest
  <2>3. LocalSize(r, d) \in Nat
    BY LocalSizeType
  <2> QED BY <2>1, <2>2, <2>3
<1> QED BY <1>1 DEF LocalIds, Nest

(* No local id is in the nests of two ULTs.                                 *)
LEMMA NestsDisjoint ==
  ASSUME NEW r, LaunchType(r), NEW T \in Nat \ {0}, NEW t \in 0..(T - 1), NEW u \in 0..(T - 1),
         NEW l \in Nest(r, T, t), l \in Nest(r, T, u)
  PROVE  t = u
<1> DEFINE L == r.lsz[r.dim]
           i == l[r.dim]
<1>1. r.dim \in Dims
  BY DEF LaunchType
<1>2. L \in Nat \ {0} /\ LocalSize(r, r.dim) = L
  BY <1>1, LocalSizeType DEF Dims
<1>3. l \in LocalIds(r)
  BY NestIsLocal
<1>4. i \in 0..(L - 1)
  BY <1>1, <1>2, <1>3 DEF LocalIds
<1>5. /\ LowerBound(L, T, t) <= i /\ i < UpperBound(L, T, t)
      /\ LowerBound(L, T, u) <= i /\ i < UpperBound(L, T, u)
  BY <1>1 DEF Nest, LoopStart, LoopEnd
<1> HIDE DEF L, i
<1> QED BY <1>2, <1>4, <1>5, ChunksPartition

(* What is before an index stays before it, and its vector is before the    *)
(* next one.                                                                *)
LEMMA BeforeGrows ==
  ASSUME NEW r, LaunchType(r), NEW T \in Nat \ {0}, NEW tid \in Nat, NEW VL \in Nat \ {0},
         NEW ind \in [Dims -> Nat], ~LoopDone(r, T, tid, VL, ind),
         NEW l \in [Dims -> Nat], Before(l, ind) \/ InVector(VL, ind, l)
  PROVE  Before(l, NextIndex(r, T, tid, VL, ind))
<1> DEFINE S == [d \in Dims |-> LoopStart(r, T, tid, d)]
           E == [d \in Dims |-> LoopEnd(r, T, tid, d)]
           n == NextIndex(r, T, tid, VL, ind)
<1>1. 1 \in Dims /\ 2 \in Dims /\ 3 \in Dims
  BY DEF Dims
<1>2. \A d \in Dims : l[d] \in Nat /\ ind[d] \in Nat
  OBVIOUS
<1>3. /\ S \in [Dims -> Nat] /\ \A d \in Dims : S[d] = LoopStart(r, T, tid, d)
      /\ E \in [Dims -> Nat] /\ \A d \in Dims : E[d] = LoopEnd(r, T, tid, d)
      /\ n = NextIndex(r, T, tid, VL, ind)
  BY BoundsType
<1> HIDE DEF S, E, n
<1>4. n \in [Dims -> Nat] /\ GoesOn(S, E, VL, ind, n)
  BY <1>3, NextIndexFacts
<1>5. Before(l, n)
  BY <1>1, <1>2, <1>4 DEF Before, InVector, GoesOn
<1> QED BY <1>5 DEF n

LEMMA VectorNotBefore ==
  ASSUME NEW VL \in Nat \ {0}, NEW ind \in [Dims -> Nat], NEW l \in [Dims -> Nat], InVector(VL, ind, l)
  PROVE  ~Before(l, ind)
<1>1. \A d \in Dims : l[d] \in Nat /\ ind[d] \in Nat
  OBVIOUS
<1>2. 1 \in Dims /\ 2 \in Dims /\ 3 \in Dims
  BY DEF Dims
<1> QED BY <1>1, <1>2 DEF Before, InVector

(* The local ids whose global ids are in a group, and that a global id of a *)
(* group has one local id.                                                  *)
GroupType(r, wg) ==
  \A d \in 1..r.dim : wg[d] \in Nat /\ wg[d] < r.gsz[d] \div r.lsz[d]

LEMMA GlobalIdInGroup ==
  ASSUME NEW r, LaunchType(r), NEW wg, GroupType(r, wg), NEW l \in [Dims -> Nat]
  PROVE  GlobalId(r, wg, l) \in GroupItems(r, wg) <=> \A d \in 1..r.dim : l[d] < r.lsz[d]
<1> DEFINE g == GlobalId(r, wg, l)
<1>1. r.dim \in Dims
  BY DEF LaunchType
<1>2. ASSUME NEW d \in 1..r.dim
      PROVE  /\ g[d] \in Nat /\ g[d] = wg[d] * r.lsz[d] + l[d] + r.offs[d]
             /\ wg[d] * r.lsz[d] \in Nat /\ g[d] - r.offs[d] = wg[d] * r.lsz[d] + l[d]
             /\ r.lsz[d] \in Nat \ {0} /\ l[d] \in Nat /\ wg[d] \in Nat
             /\ r.offs[d] \in Nat /\ r.gsz[d] \in Nat
  <2>1. d \in Dims /\ d <= r.dim
    BY <1>1 DEF Dims
  <2>2. wg[d] \in Nat /\ r.lsz[d] \in Nat \ {0} /\ l[d] \in Nat /\ r.offs[d] \in Nat /\ r.gsz[d] \in Nat
    BY <2>1 DEF GroupType, LaunchType
  <2>3. wg[d] * r.lsz[d] \in Nat
    BY <2>2
  <2>4. g[d] = wg[d] * r.lsz[d] + l[d] + r.offs[d]
    BY <2>1 DEF GlobalId
  <2> HIDE DEF g
  <2> QED BY <2>2, <2>3, <2>4
<1>3. ASSUME \A d \in 1..r.dim : l[d] < r.lsz[d]
      PROVE  g \in GroupItems(r, wg)
  <2>1. ASSUME NEW d \in 1..r.dim
        PROVE  g[d] \in Ids(r, d) /\ (g[d] - r.offs[d]) \div r.lsz[d] = wg[d]
    <3> DEFINE b == r.lsz[d]
               w == wg[d]
               x == l[d]
               s == r.gsz[d]
               a == g[d] - r.offs[d]
    <3>1. b \in Nat \ {0} /\ w \in Nat /\ x \in 0..(b - 1) /\ s \in Nat /\ a = w * b + x /\ w * b \in Nat
      BY <1>2, <1>3
    <3>2. w < s \div b
      BY DEF GroupType
    <3> HIDE DEF b, w, x, s, a
    <3>3. a \in Nat
      BY <3>1
    <3>4. a \div b \in Nat /\ a % b \in 0..(b - 1) /\ a = b * (a \div b) + (a % b)
      BY <3>1, <3>3, DivMod
    <3>5. a = (a \div b) * b + (a % b)
      <4>1. b * (a \div b) = (a \div b) * b
        BY <3>1, <3>4
      <4> QED BY <3>4, <4>1
    <3>6. a \div b = w
      <4> DEFINE q == a \div b
                 m == a % b
      <4>1. q \in Nat /\ m \in 0..(b - 1) /\ q * b + m = w * b + x
        BY <3>1, <3>4, <3>5
      <4> HIDE DEF q, m
      <4>2. q = w
        BY <3>1, <4>1, DivUnique
      <4> QED BY <4>2 DEF q
    <3>7. s \div b \in Nat /\ s % b \in 0..(b - 1) /\ s = b * (s \div b) + (s % b)
      BY <3>1, DivMod
    <3>8. (w + 1) * b <= (s \div b) * b
      BY <3>1, <3>2, <3>7, MulMono
    <3>9. (w + 1) * b = w * b + b /\ (s \div b) * b = b * (s \div b)
      BY <3>1, <3>7
    <3>10. a < s
      <4> DEFINE p == (s \div b) * b
                 m == s % b
      <4>1. p = b * (s \div b) /\ w * b + b <= p /\ s = b * (s \div b) + m /\ m \in Nat
        BY <3>1, <3>7, <3>8, <3>9
      <4>2. p \in Nat
        BY <3>1, <3>7
      <4> HIDE DEF p, m
      <4> QED BY <3>1, <4>1, <4>2
    <3>11. g[d] = r.offs[d] + a /\ r.offs[d] \in Nat
      BY <1>2 DEF a
    <3> HIDE DEF g
    <3>12. g[d] \in r.offs[d]..(r.offs[d] + r.gsz[d] - 1)
      <4>1. s = r.gsz[d]
        BY DEF s
      <4> QED BY <3>1, <3>3, <3>10, <3>11, <4>1
    <3>13. d <= r.dim
      BY <1>1 DEF Dims
    <3> QED BY <3>6, <3>12, <3>13 DEF a, b, w, Ids
  <2>2. ASSUME NEW d \in Dims, d > r.dim PROVE g[d] \in Ids(r, d)
    BY <1>1, <2>2 DEF GlobalId, Ids, Dims
  <2>3. g[1] \in Ids(r, 1) /\ g[2] \in Ids(r, 2) /\ g[3] \in Ids(r, 3)
    BY <1>1, <2>1, <2>2 DEF Dims
  <2>4. g = <<g[1], g[2], g[3]>>
    <3>1. g = [d \in Dims |-> g[d]]
      BY DEF GlobalId
    <3> HIDE DEF g
    <3> QED BY <3>1 DEF Dims
  <2> HIDE DEF g
  <2>5. g \in ItemsOf(r)
    BY <2>3, <2>4 DEF ItemsOf
  <2> QED BY <2>1, <2>5 DEF GroupItems
<1>4. ASSUME g \in GroupItems(r, wg), NEW d \in 1..r.dim
      PROVE  l[d] < r.lsz[d]
  <2> DEFINE b == r.lsz[d]
             w == wg[d]
             x == l[d]
             a == g[d] - r.offs[d]
  <2>1. b \in Nat \ {0} /\ w \in Nat /\ x \in Nat /\ a = w * b + x /\ w * b \in Nat
    BY <1>2
  <2>2. a \div b = w
    BY <1>4 DEF GroupItems
  <2> HIDE DEF b, w, x, a
  <2>3. a \in Nat
    BY <2>1
  <2>4. a % b \in 0..(b - 1) /\ a = b * w + (a % b)
    BY <2>1, <2>2, <2>3, DivMod
  <2>5. b * w = w * b
    BY <2>1
  <2>6. x < b
    BY <2>1, <2>4, <2>5
  <2> QED BY <2>6 DEF x, b
<1> QED BY <1>3, <1>4

LEMMA GlobalIdInjective ==
  ASSUME NEW r, LaunchType(r), NEW wg, GroupType(r, wg),
         NEW l \in LocalIds(r), NEW m \in LocalIds(r), GlobalId(r, wg, l) = GlobalId(r, wg, m)
  PROVE  l = m
<1>1. r.dim \in Dims
  BY DEF LaunchType
<1>2. l \in [Dims -> Nat] /\ m \in [Dims -> Nat]
  BY DEF LocalIds
<1>3. ASSUME NEW d \in Dims PROVE l[d] = m[d]
  <2>1. CASE d <= r.dim
    <3>1. d \in 1..r.dim
      BY <1>1, <2>1 DEF Dims
    <3>2. wg[d] \in Nat /\ r.lsz[d] \in Nat /\ r.offs[d] \in Nat /\ l[d] \in Nat /\ m[d] \in Nat
      BY <1>2, <3>1 DEF GroupType, LaunchType
    <3>3. wg[d] * r.lsz[d] + l[d] + r.offs[d] = wg[d] * r.lsz[d] + m[d] + r.offs[d]
      <4>1. GlobalId(r, wg, l)[d] = wg[d] * r.lsz[d] + l[d] + r.offs[d]
        BY <2>1 DEF GlobalId
      <4>2. GlobalId(r, wg, m)[d] = wg[d] * r.lsz[d] + m[d] + r.offs[d]
        BY <2>1 DEF GlobalId
      <4> QED BY <4>1, <4>2
    <3>4. wg[d] * r.lsz[d] \in Nat
      BY <3>2
    <3> DEFINE p == wg[d] * r.lsz[d]
               a == l[d]
               b == m[d]
               o == r.offs[d]
    <3>5. p \in Nat /\ a \in Nat /\ b \in Nat /\ o \in Nat /\ p + a + o = p + b + o
      BY <3>2, <3>3, <3>4
    <3> HIDE DEF p, a, b, o
    <3>6. a = b
      BY <3>5
    <3> QED BY <3>6 DEF a, b
  <2>2. CASE d > r.dim
    <3>1. LocalSize(r, d) = 1
      BY <2>2, LocalSizeType
    <3>2. l[d] < 1 /\ m[d] < 1 /\ l[d] \in Nat /\ m[d] \in Nat
      BY <1>2, <3>1 DEF LocalIds
    <3> QED BY <3>2
  <2> QED BY <1>1, <2>1, <2>2 DEF Dims
<1> QED BY <1>2, <1>3

(* A vector's global ids are those of its local ids under the mask.         *)
LEMMA VectorItemsAre ==
  ASSUME NEW r, NEW L \in Nat, NEW w, NEW i \in [Dims -> Nat], NEW c \in VectorItems(r, L, w, i)
  PROVE  \E l \in [Dims -> Nat] : /\ c = GlobalId(r, w, l) /\ InVector(L, i, l)
                                  /\ l[1] < r.lsz[1]
<1>1. PICK k \in ActiveLanes(r, L, i) : c = GlobalId(r, w, [i EXCEPT ![1] = @ + k])
  BY DEF VectorItems
<1>2. k \in 0..(L - 1) /\ i[1] + k < r.lsz[1]
  BY <1>1 DEF ActiveLanes
<1> DEFINE l == [i EXCEPT ![1] = @ + k]
<1>3. l \in [Dims -> Nat] /\ l[1] = i[1] + k /\ l[2] = i[2] /\ l[3] = i[3]
  BY <1>2 DEF Dims
<1>4. c = GlobalId(r, w, l)
  BY <1>1
<1>5. i[1] \in Nat
  BY DEF Dims
<1> HIDE DEF l
<1>6. InVector(L, i, l) /\ l[1] < r.lsz[1]
  BY <1>2, <1>3, <1>5 DEF InVector
<1> QED BY <1>3, <1>4, <1>6


-----------------------------------------------------------------------------
(* Aligned sizes: the index of a nest stays in the bounds of its loops.     *)
ChunkOf(r, T) == ChunkSize(r.lsz[r.dim], T)

InBoundsOf(r, T, VL, tid, ind) ==
  /\ \A d \in {2, 3} : /\ LoopStart(r, T, tid, d) <= ind[d]
                       /\ ind[d] < LoopEnd(r, T, tid, d)
  /\ \E j \in Nat : /\ ind[1] = LoopStart(r, T, tid, 1) + j * VL
                    /\ r.dim = 1 => j * VL < ChunkOf(r, T)

LEMMA ChunkType ==
  ASSUME NEW r, LaunchType(r), NEW T \in Nat \ {0}
  PROVE  /\ r.dim \in Dims /\ r.lsz[r.dim] \in Nat \ {0}
         /\ ChunkOf(r, T) \in Nat \ {0}
         /\ r.lsz[r.dim] <= T * ChunkOf(r, T)
<1>1. r.dim \in Dims /\ r.lsz[r.dim] \in Nat \ {0}
  BY LocalSizeType DEF LaunchType, Dims
<1> QED BY <1>1, ChunkSizeFacts DEF ChunkOf

LEMMA ChunkBounds ==
  ASSUME NEW r, LaunchType(r), NEW T \in Nat \ {0}, NEW t \in Nat
  PROVE  /\ t * ChunkOf(r, T) \in Nat
         /\ LoopStart(r, T, t, r.dim) = t * ChunkOf(r, T)
         /\ LoopEnd(r, T, t, r.dim) =
              IF t * ChunkOf(r, T) + ChunkOf(r, T) > r.lsz[r.dim] THEN r.lsz[r.dim]
              ELSE t * ChunkOf(r, T) + ChunkOf(r, T)
<1>1. t * ChunkOf(r, T) \in Nat
  BY ChunkType
<1> QED BY <1>1 DEF LoopStart, LoopEnd, LowerBound, UpperBound, ChunkOf

LEMMA AlignedNest ==
  ASSUME NEW r, LaunchType(r), NEW T \in Nat \ {0}, NEW VL \in Nat \ {0}, Aligned(r, T, VL),
         NEW t \in 0..(T - 1), NEW d \in {2, 3}
  PROVE  LoopStart(r, T, t, d) < LoopEnd(r, T, t, d)
<1>1. d \in Dims
  BY DEF Dims
<1>2. CASE d # r.dim
  <2>1. LocalSize(r, d) \in Nat \ {0}
    BY <1>1, LocalSizeType
  <2>2. LoopStart(r, T, t, d) = 0 /\ LoopEnd(r, T, t, d) = LocalSize(r, d)
    BY <1>1, <1>2, BoundsType, SMTT(30)
  <2> QED BY <2>1, <2>2
<1>3. CASE d = r.dim
  <2> DEFINE L == r.lsz[r.dim]
             C == ChunkOf(r, T)
             u == T - 1
  <2>1. u * C < L
    BY <1>3 DEF Aligned, ChunkOf
  <2>2. L \in Nat /\ C \in Nat \ {0} /\ u \in Nat /\ t \in Nat /\ t <= u
    BY <1>1, ChunkType
  <2>3. /\ t * C \in Nat /\ LoopStart(r, T, t, d) = t * C
        /\ LoopEnd(r, T, t, d) = IF t * C + C > L THEN L ELSE t * C + C
    BY <1>3, <2>2, ChunkBounds
  <2> HIDE DEF L, C, u
  <2>4. t * C <= u * C /\ u * C \in Nat
    BY <2>2, MulMono
  <2> QED BY <2>1, <2>2, <2>3, <2>4
<1> QED BY <1>2, <1>3

LEMMA AlignedFirst ==
  ASSUME NEW r, LaunchType(r), NEW T \in Nat \ {0}, NEW VL \in Nat \ {0}, Aligned(r, T, VL),
         NEW t \in 0..(T - 1)
  PROVE  InBoundsOf(r, T, VL, t, FirstIndex(r, T, t))
<1> DEFINE ind == FirstIndex(r, T, t)
<1>1. \A d \in Dims : ind[d] = LoopStart(r, T, t, d)
  BY DEF FirstIndex
<1>2. \A d \in Dims : LoopStart(r, T, t, d) \in Nat
  BY BoundsType
<1>3. \A d \in {2, 3} : LoopStart(r, T, t, d) <= ind[d] /\ ind[d] < LoopEnd(r, T, t, d)
  BY <1>1, <1>2, AlignedNest DEF Dims
<1>4. ind[1] = LoopStart(r, T, t, 1) + 0 * VL
  BY <1>1, <1>2 DEF Dims
<1>5. 0 * VL < ChunkOf(r, T)
  BY ChunkType
<1> QED BY <1>3, <1>4, <1>5 DEF InBoundsOf

(* Every active lane of a vector is in the nest of its ULT.                 *)
LEMMA AlignedVector ==
  ASSUME NEW r, LaunchType(r), NEW T \in Nat \ {0}, NEW VL \in Nat \ {0}, Aligned(r, T, VL),
         NEW tid \in 0..(T - 1), NEW ind \in [Dims -> Nat], InBoundsOf(r, T, VL, tid, ind),
         NEW l \in [Dims -> Nat], InVector(VL, ind, l), l[1] < r.lsz[1]
  PROVE  l \in Nest(r, T, tid)
<1> DEFINE S(d) == LoopStart(r, T, tid, d)
           E(d) == LoopEnd(r, T, tid, d)
<1>1. LaunchType(r) /\ T \in Nat \ {0} /\ VL \in Nat \ {0} /\ tid \in Nat
  OBVIOUS
<1>2. 1 \in Dims /\ 2 \in Dims /\ 3 \in Dims
  BY DEF Dims
<1>3. S(2) <= l[2] /\ l[2] < E(2) /\ S(3) <= l[3] /\ l[3] < E(3)
  BY DEF InBoundsOf, InVector
<1>4. PICK j \in Nat : ind[1] = S(1) + j * VL /\ (r.dim = 1 => j * VL < ChunkOf(r, T))
  BY DEF InBoundsOf
<1>5. S(1) \in Nat /\ j * VL \in Nat /\ ind[1] \in Nat /\ l[1] \in Nat
  <2>1. S(1) \in Nat
    BY <1>1, <1>2, BoundsType
  <2>2. j * VL \in Nat
    BY <1>1
  <2>3. ind[1] \in Nat /\ l[1] \in Nat
    BY <1>2
  <2> QED BY <2>1, <2>2, <2>3
<1>6. S(1) <= l[1]
  BY <1>1, <1>4, <1>5 DEF InVector
<1>7. l[1] < E(1)
  <2>1. CASE r.dim # 1
    <3>1. E(1) = r.lsz[1]
      <4>1. r.dim \in Dims /\ 1 <= r.dim
        BY <1>1 DEF LaunchType, Dims
      <4>2. E(1) = LocalSize(r, 1)
        BY <1>1, <1>2, <2>1, BoundsType
      <4>3. LocalSize(r, 1) = r.lsz[1]
        BY <1>1, <1>2, <4>1, LocalSizeType
      <4> QED BY <4>2, <4>3
    <3> QED BY <3>1
  <2>2. CASE r.dim = 1
    <3> DEFINE L == r.lsz[1]
               C == ChunkOf(r, T)
               p == tid * C
    <3>1. L \in Nat \ {0} /\ C \in Nat \ {0}
      BY <2>2, ChunkType
    <3>2. p \in Nat /\ S(1) = p /\ E(1) = IF p + C > L THEN L ELSE p + C
      BY <1>1, <2>2, ChunkBounds
    <3>3. C % VL = 0 \/ C >= L
      BY <2>2 DEF Aligned, ChunkOf
    <3>4. l[1] < L /\ ind[1] <= l[1] /\ l[1] < ind[1] + VL
      BY DEF InVector
    <3>5. CASE C >= L
      <4>1. CASE tid = 0
        <5>1. p = 0
          BY <3>1, <4>1
        <5> HIDE DEF p, L, C
        <5> QED BY <1>5, <3>1, <3>2, <3>4, <3>5, <5>1
      <4>2. CASE tid # 0
        <5>1. 1 * C <= p
          <6> HIDE DEF C
          <6>1. 1 <= tid /\ C \in Nat
            BY <1>1, <3>1, <4>2
          <6> QED BY <1>1, <6>1, MulMono
        <5> HIDE DEF p, L, C
        <5> QED BY <1>5, <1>6, <3>1, <3>2, <3>4, <3>5, <5>1
      <4> QED BY <4>1, <4>2
    <3>6. CASE C % VL = 0
      <4> DEFINE q == C \div VL
      <4>1. q \in Nat /\ C = VL * q + (C % VL)
        BY <1>1, <3>1, DivMod
      <4> HIDE DEF q, C
      <4>2. C = q * VL
        BY <1>1, <3>6, <4>1
      <4>3. j * VL < q * VL
        BY <1>4, <2>2, <4>2 DEF C
      <4>4. j < q
        <5>1. SUFFICES ASSUME q <= j PROVE FALSE
          BY <4>1
        <5>2. q * VL <= j * VL
          BY <1>1, <4>1, <5>1, MulMono
        <5>3. q * VL \in Nat
          BY <1>1, <4>1
        <5> QED BY <1>5, <4>3, <5>2, <5>3
      <4>5. (j + 1) * VL <= q * VL
        BY <1>1, <4>1, <4>4, MulMono
      <4>6. (j + 1) * VL = j * VL + VL
        BY <1>1
      <4>7. j * VL + VL <= C
        BY <4>2, <4>5, <4>6
      <4> HIDE DEF p, L
      <4> QED BY <1>1, <1>4, <1>5, <3>1, <3>2, <3>4, <4>7
    <3> QED BY <3>3, <3>5, <3>6
  <2> QED BY <2>1, <2>2
<1>8. \A d \in Dims : S(d) <= l[d] /\ l[d] < E(d)
  BY <1>3, <1>6, <1>7 DEF Dims
<1> QED BY <1>8 DEF Nest

LEMMA AlignedNext ==
  ASSUME NEW r, LaunchType(r), NEW T \in Nat \ {0}, NEW VL \in Nat \ {0}, Aligned(r, T, VL),
         NEW tid \in 0..(T - 1), NEW ind \in [Dims -> Nat], InBoundsOf(r, T, VL, tid, ind),
         ~LoopDone(r, T, tid, VL, ind)
  PROVE  InBoundsOf(r, T, VL, tid, NextIndex(r, T, tid, VL, ind))
<1> DEFINE n == NextIndex(r, T, tid, VL, ind)
           S == [d \in Dims |-> LoopStart(r, T, tid, d)]
           E == [d \in Dims |-> LoopEnd(r, T, tid, d)]
           C == ChunkOf(r, T)
<1>1. /\ 1 \in Dims /\ 2 \in Dims /\ 3 \in Dims
      /\ C \in Nat \ {0} /\ tid \in Nat /\ ind[1] \in Nat
  BY ChunkType DEF Dims
<1>2. PICK j \in Nat : ind[1] = LoopStart(r, T, tid, 1) + j * VL /\ (r.dim = 1 => j * VL < C)
  BY DEF InBoundsOf
<1>3. /\ S \in [Dims -> Nat] /\ \A d \in Dims : S[d] = LoopStart(r, T, tid, d)
      /\ E \in [Dims -> Nat] /\ \A d \in Dims : E[d] = LoopEnd(r, T, tid, d)
      /\ n = NextIndex(r, T, tid, VL, ind)
  BY <1>1, BoundsType
<1>4. /\ S[2] <= ind[2] /\ ind[2] < E[2] /\ S[3] <= ind[3] /\ ind[3] < E[3]
      /\ S[2] < E[2] /\ S[3] < E[3]
  BY <1>1, AlignedNest DEF InBoundsOf
<1>5. ind[1] = S[1] + j * VL
  BY <1>1, <1>2
<1> HIDE DEF S, E, n
<1>6. GoesOn(S, E, VL, ind, n)
  BY <1>1, <1>3, NextIndexFacts
<1>7. /\ S[2] <= n[2] /\ n[2] < E[2] /\ S[3] <= n[3] /\ n[3] < E[3]
      /\ \/ n[1] = S[1]
         \/ n[1] = ind[1] + VL /\ ind[1] + VL < E[1]
  BY <1>1, <1>3, <1>4, <1>6 DEF GoesOn
<1>8. \A d \in {2, 3} : LoopStart(r, T, tid, d) <= n[d] /\ n[d] < LoopEnd(r, T, tid, d)
  BY <1>1, <1>3, <1>7
<1>9. CASE n[1] = S[1]
  <2>1. 0 * VL = 0 /\ 0 < C /\ n[1] = LoopStart(r, T, tid, 1) + 0 * VL
    BY <1>1, <1>3, <1>9
  <2> QED BY <1>8, <2>1 DEF InBoundsOf, n
<1>10. CASE n[1] = ind[1] + VL /\ ind[1] + VL < E[1]
  <2> DEFINE p == j * VL
             q == (j + 1) * VL
  <2>1. q = p + VL /\ p \in Nat
    BY <1>2
  <2>2. S[1] \in Nat /\ E[1] \in Nat /\ ind[1] = S[1] + p
    BY <1>1, <1>3, <1>5
  <2> HIDE DEF p, q
  <2>3. n[1] = S[1] + q
    BY <1>10, <2>1, <2>2
  <2>4. r.dim = 1 => q < C
    <3>1. SUFFICES ASSUME r.dim = 1 PROVE q < C
      OBVIOUS
    <3> DEFINE L == r.lsz[r.dim]
               b == tid * C
    <3>2. /\ b \in Nat /\ S[1] = b /\ E[1] = (IF b + C > L THEN L ELSE b + C)
          /\ L \in Nat
      BY <1>1, <1>3, <3>1, ChunkBounds, ChunkType
    <3> HIDE DEF b, L, C
    <3> QED BY <1>1, <1>10, <2>1, <2>2, <3>2
  <2>5. \E k \in Nat : n[1] = LoopStart(r, T, tid, 1) + k * VL /\ (r.dim = 1 => k * VL < C)
    <3>1. j + 1 \in Nat /\ S[1] = LoopStart(r, T, tid, 1)
      BY <1>1, <1>3
    <3> QED BY <2>3, <2>4, <3>1 DEF q
  <2> QED BY <1>8, <2>5 DEF InBoundsOf, n
<1> QED BY <1>7, <1>9, <1>10
=============================================================================
