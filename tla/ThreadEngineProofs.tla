-------------------------- MODULE ThreadEngineProofs --------------------------
(***************************************************************************)
(* Safety of ThreadEngine for every number of compute units and nodes,      *)
(* every vector length, set of requests and number of launches.             *)
(***************************************************************************)
EXTENDS ThreadEngine, DataProofs, SequenceTheorems

USE CUsAssumption

(* A node has at least one core, and the nodes' cores are all there.        *)
LEMMA NodeFacts ==
  /\ ThreadSize \in Nat \ {0}
  /\ NumCoresPerNode = ThreadSize
  /\ NumNodes * ThreadSize <= NumCUs
<1>1. /\ NumCUs \div NumNodes \in Nat
      /\ NumCUs % NumNodes \in 0..(NumNodes - 1)
      /\ NumCUs = NumNodes * (NumCUs \div NumNodes) + (NumCUs % NumNodes)
  BY DivMod, Zenon
<1>2. NumCUs \div NumNodes # 0
  <2>1. SUFFICES ASSUME NumCUs \div NumNodes = 0 PROVE FALSE
    OBVIOUS
  <2>2. NumNodes * (NumCUs \div NumNodes) = 0
    BY <2>1
  <2> QED BY <1>1, <2>2
<1> DEFINE q == NumCUs \div NumNodes
           p == NumNodes * q
<1>3. p \in Nat /\ p <= NumCUs
  BY <1>1
<1> HIDE DEF p
<1> QED BY <1>1, <1>2, <1>3 DEF ThreadSize, NumCoresPerNode, p

(* createThreadGroup indexes CUs within bounds: every thread is created on  *)
(* an existing compute unit.                                                *)
LEMMA CoreNumInRange ==
  ASSUME NEW i \in Nat \ {0}
  PROVE  /\ CoreNum(i) \in CUs
         /\ GroupIndex(i) \in Nat
         /\ ThreadID(i) \in 0..(ThreadSize - 1)
<1> DEFINE g == GroupIndex(i)
           n == g % NumNodes
           t == ThreadID(i)
<1>1. i - 1 \in Nat
  OBVIOUS
<1>2. g \in Nat /\ t \in 0..(ThreadSize - 1)
  BY <1>1, NodeFacts, DivMod, Zenon DEF GroupIndex, ThreadID
<1> HIDE DEF g, t
<1>3. n \in 0..(NumNodes - 1)
  BY <1>2, DivMod, Zenon
<1>4. (n + 1) * ThreadSize <= NumNodes * ThreadSize
  BY <1>3, NodeFacts, MulMono
<1>5. (n + 1) * ThreadSize = n * ThreadSize + ThreadSize
  BY <1>3, NodeFacts
<1>6. CoreNum(i) = n * ThreadSize + t
  BY NodeFacts DEF CoreNum, g, t
<1>7. n * ThreadSize \in Nat
  BY <1>3, NodeFacts
<1> DEFINE m == n * ThreadSize
           p == NumNodes * ThreadSize
<1> HIDE DEF n
<1>8. m \in Nat /\ p \in Int /\ m + ThreadSize <= p /\ p <= NumCUs /\ CoreNum(i) = m + t
  BY <1>3, <1>4, <1>5, <1>6, <1>7, NodeFacts
<1> HIDE DEF m, p
<1>9. CoreNum(i) \in CUs
  BY <1>2, <1>8, NodeFacts DEF CUs
<1> QED BY <1>2, <1>9 DEF g, t

(* A request the checks let through has, in each of its one to three        *)
(* dimensions, a local size that divides the global size.                   *)
LEMMA ValidFacts ==
  ASSUME NEW r \in Requests, Valid(r)
  PROVE  /\ r.dim \in Dims
         /\ \A d \in 1..r.dim : /\ r.lsz[d] \in Nat \ {0}
                              /\ r.gsz[d] \in Nat
                              /\ r.offs[d] \in Nat
         /\ \A d \in Dims : NumWorkGroups(r, d) \in Nat
<1>1. r.dim \in Dims
  BY DEF Valid
<1>2. /\ r.offs \in Seq(Nat) /\ r.gsz \in Seq(Nat) /\ r.lsz \in Seq(Nat \ {0})
      /\ Len(r.offs) = r.dim /\ Len(r.gsz) = r.dim /\ Len(r.lsz) = r.dim
  BY RequestsAssumption DEF RequestType
<1>3. \A d \in 1..r.dim : r.lsz[d] \in Nat \ {0} /\ r.gsz[d] \in Nat /\ r.offs[d] \in Nat
  BY <1>2, ElementOfSeq, Zenon
<1>4. ASSUME NEW d \in Dims PROVE NumWorkGroups(r, d) \in Nat
  <2>1. CASE d <= r.dim
    <3>1. d \in 1..r.dim
      BY <2>1, <1>1 DEF Dims
    <3>2. r.gsz[d] \div r.lsz[d] \in Nat
      BY <3>1, <1>3, DivMod, Zenon
    <3> QED BY <2>1, <3>2 DEF NumWorkGroups
  <2>2. CASE ~(d <= r.dim)
    BY <2>2 DEF NumWorkGroups
  <2> QED BY <2>1, <2>2
<1> QED BY <1>1, <1>3, <1>4

LEMMA PositiveFactors ==
  ASSUME NEW a \in Nat, NEW b \in Nat, NEW c \in Nat, NEW t \in Nat, a * b * c * t > 0
  PROVE  a > 0 /\ b > 0 /\ c > 0
<1>1. a # 0
  BY SMT
<1>2. b # 0
  BY SMT
<1>3. c # 0
  BY SMT
<1> QED BY <1>1, <1>2, <1>3

(* The work group of every thread that is created has natural coordinates.  *)
LEMMA WorkGroupType ==
  ASSUME NEW r \in Requests, Valid(r), NEW idx \in Nat, NumThreads(r) > 0
  PROVE  WorkGroupOf(r, idx) \in Nat \X Nat \X Nat
<1> DEFINE n1 == NumWorkGroups(r, 1)
           n2 == NumWorkGroups(r, 2)
           n3 == NumWorkGroups(r, 3)
<1>1. n1 \in Nat /\ n2 \in Nat /\ n3 \in Nat
  BY ValidFacts DEF Dims
<1>2. n1 * n2 * n3 * ThreadSize > 0
  BY DEF NumThreads
<1> HIDE DEF n1, n2, n3
<1>3. n1 > 0 /\ n2 > 0
  BY <1>1, <1>2, NodeFacts, PositiveFactors
<1>4. n1 \in Nat \ {0} /\ n2 \in Nat \ {0}
  BY <1>1, <1>3
<1>5. n1 * n2 \in Nat \ {0}
  BY <1>4
<1>6. idx % n1 \in Nat /\ idx \div n1 \in Nat
  BY <1>4, DivMod
<1>7. (idx \div n1) % n2 \in Nat
  BY <1>4, <1>6, DivMod
<1>8. idx \div (n1 * n2) \in Nat
  BY <1>5, DivMod, Zenon
<1> QED BY <1>6, <1>7, <1>8 DEF WorkGroupOf, n1, n2

-----------------------------------------------------------------------------
(* The inductive invariant.  NoDanglingULT and ArgsOfThisLaunch are not     *)
(* inductive: they hold because the pools, the running ULTs and the states  *)
(* of the Thread objects agree, because the host leaves a call only when    *)
(* every Thread object is deleted, and because it deletes only terminated   *)
(* ones.                                                                    *)

(* Where the host is, and how far its loop over the group has come.         *)
HostInv ==
  /\ joined <= Len(ThreadGroup)
  /\ hostPc = "idle" => ThreadGroup = <<>>
  /\ hostPc \in {"idle", "create"} => joined = 0
  /\ hostPc # "idle" =>
       /\ CommonArgs \in [launch : 1..MaxLaunches, req : Requests]
       /\ CommonArgs.launch = launch
       /\ Valid(CommonArgs.req)

(* The Thread objects: those deleted are the first joined ones, each has    *)
(* the place createThreadGroup gave it, and those that have started hold    *)
(* the arguments of the current launch.                                     *)
GroupInv ==
  \A i \in 1..Len(ThreadGroup) :
    LET T == ThreadGroup[i]
    IN  /\ T.st = "freed" <=> i <= joined
        /\ i <= NumThreads(CommonArgs.req)
        /\ T.CU = CoreNum(i)
        /\ T.ThreadID = ThreadID(i)
        /\ T.WG = WorkGroupOf(CommonArgs.req, GroupIndex(i))
        /\ T.st \in {"load", "store"} => T.args = CommonArgs

(* A pool holds threads of its compute unit that have not started, oldest   *)
(* first.                                                                   *)
PoolInv ==
  \A c \in CUs :
    /\ \A k \in 1..Len(Pool[c]) :
         /\ Pool[c][k] \in 1..Len(ThreadGroup)
         /\ ThreadGroup[Pool[c][k]].st = "ready"
         /\ ThreadGroup[Pool[c][k]].CU = c
    /\ \A k, m \in 1..Len(Pool[c]) : k < m => Pool[c][k] < Pool[c][m]

(* A compute unit runs a thread of its own that has started.                *)
RunInv ==
  \A c \in CUs :
    running[c] # 0 =>
      /\ running[c] \in 1..Len(ThreadGroup)
      /\ ThreadGroup[running[c]].st \in {"load", "store"}
      /\ ThreadGroup[running[c]].CU = c

IInv == TypeOK /\ HostInv /\ GroupInv /\ PoolInv /\ RunInv

LEMMA InitInv == Init => IInv
<1> SUFFICES ASSUME Init PROVE IInv
  OBVIOUS
<1>1. ThreadGroup = <<>> /\ Len(ThreadGroup) = 0 /\ ThreadGroup \in Seq(ThreadType)
  BY EmptySeq DEF Init
<1>2. Pool \in [CUs -> Seq(Nat)] /\ \A c \in CUs : Len(Pool[c]) = 0
  BY EmptySeq DEF Init
<1>3. running \in [CUs -> Nat] /\ \A c \in CUs : running[c] = 0
  BY DEF Init
<1>4. TypeOK
  BY <1>1, <1>2, <1>3, MaxLaunchesAssumption DEF Init, TypeOK, ReturnCodes, Zeros
<1>5. HostInv
  BY <1>1 DEF Init, HostInv
<1>6. GroupInv /\ PoolInv /\ RunInv
  BY <1>1, <1>2, <1>3 DEF GroupInv, PoolInv, RunInv
<1> QED BY <1>4, <1>5, <1>6 DEF IInv

LEMMA RejectInv ==
  ASSUME IInv, NEW r \in Requests, Reject(r)
  PROVE  IInv'
<1>1. EnqueueError(r) \in ReturnCodes
  <2>1. r.null \in NullArgs
    BY RequestsAssumption DEF RequestType
  <2> QED BY <2>1 DEF EnqueueError, NullError, ReturnCodes, NullArgs
<1>2. TypeOK'
  BY <1>1 DEF IInv, TypeOK, Reject
<1>3. HostInv' /\ GroupInv' /\ PoolInv' /\ RunInv'
  BY DEF IInv, HostInv, GroupInv, PoolInv, RunInv, Reject
<1> QED BY <1>2, <1>3 DEF IInv

LEMMA LaunchInv ==
  ASSUME IInv, NEW r \in Requests, Launch(r)
  PROVE  IInv'
<1>1. launch + 1 \in 1..MaxLaunches
  BY MaxLaunchesAssumption DEF IInv, TypeOK, Launch
<1>2. ThreadGroup = <<>> /\ ThreadGroup' = <<>> /\ Len(ThreadGroup) = 0
  BY DEF IInv, HostInv, Launch
<1>3. TypeOK'
  <2>1. expected' \in [Cells -> Nat]
    BY DEF IInv, TypeOK, Launch
  <2>2. CommonArgs' \in [launch : 1..MaxLaunches, req : Requests] /\ launch' \in 0..MaxLaunches
    BY <1>1, MaxLaunchesAssumption DEF Launch
  <2> QED BY <2>1, <2>2 DEF IInv, TypeOK, Launch
<1>4. HostInv'
  BY <1>1, <1>2 DEF IInv, HostInv, Launch
<1>5. GroupInv'
  BY <1>2 DEF GroupInv
<1>6. PoolInv' /\ RunInv'
  BY <1>2 DEF IInv, PoolInv, RunInv, Launch
<1> QED BY <1>3, <1>4, <1>5, <1>6 DEF IInv

LEMMA StartFinishInv ==
  ASSUME IInv, StartFinish
  PROVE  IInv'
BY DEF IInv, TypeOK, HostInv, GroupInv, PoolInv, RunInv, StartFinish

LEMMA SuspendInv ==
  ASSUME IInv, Suspend
  PROVE  IInv'
BY DEF IInv, TypeOK, HostInv, GroupInv, PoolInv, RunInv, Suspend

(* The call returns only when every Thread object is deleted, so no pool    *)
(* and no compute unit has a ULT left.                                      *)
LEMMA ReturnInv ==
  ASSUME IInv, Return
  PROVE  IInv'
<1>1. \A i \in 1..Len(ThreadGroup) : ThreadGroup[i].st = "freed"
  BY DEF IInv, GroupInv, Return
<1>2. ThreadGroup' = <<>> /\ Len(ThreadGroup') = 0 /\ ThreadGroup' \in Seq(ThreadType)
  BY EmptySeq DEF Return
<1>3. \A c \in CUs : running[c] = 0
  BY <1>1 DEF IInv, RunInv
<1>4. \A c \in CUs : Len(Pool[c]) = 0
  <2> TAKE c \in CUs
  <2>1. Len(Pool[c]) \in Nat
    BY LenProperties DEF IInv, TypeOK
  <2>2. ASSUME Len(Pool[c]) # 0 PROVE FALSE
    <3>1. 1 \in 1..Len(Pool[c])
      BY <2>1, <2>2
    <3> QED BY <3>1, <1>1 DEF IInv, PoolInv
  <2> QED BY <2>2
<1>5. TypeOK'
  BY <1>2 DEF IInv, TypeOK, Return, ReturnCodes
<1>6. HostInv' /\ GroupInv'
  BY <1>2 DEF IInv, HostInv, GroupInv, Return
<1>7. PoolInv' /\ RunInv'
  BY <1>3, <1>4 DEF PoolInv, RunInv, Return
<1> QED BY <1>5, <1>6, <1>7 DEF IInv

(* createThreadGroup: the new thread is typed, has its place, and joins the *)
(* end of its compute unit's pool, where every index is smaller.            *)
LEMMA CreateThreadInv ==
  ASSUME IInv, CreateThread
  PROVE  IInv'
<1> DEFINE n == Len(ThreadGroup)
           i == n + 1
           r == CommonArgs.req
           cu == CoreNum(i)
           T == NewThread(i)
<1>1. n \in Nat /\ ThreadGroup \in Seq(ThreadType) /\ i \in Nat \ {0} /\ i = n + 1
  BY LenProperties DEF IInv, TypeOK
<1>2. /\ hostPc = "create" /\ joined = 0
      /\ i <= NumThreads(r)
      /\ r \in Requests /\ Valid(r)
      /\ ThreadGroup' = Append(ThreadGroup, T)
      /\ Pool' = [Pool EXCEPT ![cu] = Append(@, i)]
      /\ UNCHANGED <<hostPc, ret, launch, CommonArgs, joined, running, reg, mem, expected>>
  BY DEF IInv, HostInv, CreateThread
<1>3. cu \in CUs /\ GroupIndex(i) \in Nat /\ ThreadID(i) \in Nat
  BY <1>1, CoreNumInRange, NodeFacts
<1>4. WorkGroupOf(r, GroupIndex(i)) \in Nat \X Nat \X Nat
  <2>1. NumThreads(r) \in Nat
    <3>1. /\ NumWorkGroups(r, 1) \in Nat /\ NumWorkGroups(r, 2) \in Nat
          /\ NumWorkGroups(r, 3) \in Nat
      BY <1>2, ValidFacts DEF Dims
    <3> QED BY <3>1, NodeFacts DEF NumThreads
  <2>2. NumThreads(r) > 0
    BY <1>1, <1>2, <2>1
  <2> QED BY <1>2, <1>3, <2>2, WorkGroupType
<1>5. T \in ThreadType /\ T.st = "ready" /\ T.CU = cu
  BY <1>3, <1>4 DEF NewThread, ThreadType, Origin
<1>6. /\ ThreadGroup' \in Seq(ThreadType)
      /\ Len(ThreadGroup') = i
      /\ \A j \in 1..n : ThreadGroup'[j] = ThreadGroup[j]
      /\ ThreadGroup'[i] = T
  BY <1>1, <1>2, <1>5, AppendProperties
<1>7. Pool \in [CUs -> Seq(Nat)]
  BY DEF IInv, TypeOK
<1>8. \A c \in CUs : Pool[c] \in Seq(Nat) /\ Len(Pool[c]) \in Nat
  BY <1>7, LenProperties
<1>9. /\ Pool' \in [CUs -> Seq(Nat)]
      /\ \A c \in CUs : c # cu => Pool'[c] = Pool[c]
      /\ Pool'[cu] \in Seq(Nat)
      /\ Len(Pool'[cu]) = Len(Pool[cu]) + 1
      /\ \A k \in 1..Len(Pool[cu]) : Pool'[cu][k] = Pool[cu][k]
      /\ Pool'[cu][Len(Pool[cu]) + 1] = i
  <2>1. Pool'[cu] = Append(Pool[cu], i)
    BY <1>2, <1>3, <1>7
  <2>2. Append(Pool[cu], i) \in Seq(Nat)
    BY <1>1, <1>3, <1>8, AppendProperties
  <2> QED BY <1>1, <1>2, <1>3, <1>7, <1>8, <2>1, <2>2, AppendProperties
<1>10. TypeOK'
  BY <1>2, <1>6, <1>9 DEF IInv, TypeOK
<1>11. HostInv'
  BY <1>1, <1>2, <1>6 DEF IInv, HostInv
<1>12. GroupInv'
  <2> SUFFICES ASSUME NEW j \in 1..i
               PROVE  /\ ThreadGroup'[j].st = "freed" <=> j <= joined
                      /\ j <= NumThreads(r)
                      /\ ThreadGroup'[j].CU = CoreNum(j)
                      /\ ThreadGroup'[j].ThreadID = ThreadID(j)
                      /\ ThreadGroup'[j].WG = WorkGroupOf(r, GroupIndex(j))
                      /\ ThreadGroup'[j].st \in {"load", "store"} => ThreadGroup'[j].args = CommonArgs
    BY <1>2, <1>6 DEF GroupInv
  <2>1. CASE j = i
    BY <2>1, <1>1, <1>2, <1>5, <1>6 DEF NewThread
  <2>2. CASE j # i
    <3>1. j \in 1..n
      BY <2>2, <1>1
    <3> QED BY <3>1, <1>6 DEF IInv, GroupInv
  <2> QED BY <2>1, <2>2
<1>13. PoolInv'
  <2> SUFFICES ASSUME NEW c \in CUs
               PROVE  /\ \A k \in 1..Len(Pool'[c]) :
                           /\ Pool'[c][k] \in 1..i
                           /\ ThreadGroup'[Pool'[c][k]].st = "ready"
                           /\ ThreadGroup'[Pool'[c][k]].CU = c
                      /\ \A k, m \in 1..Len(Pool'[c]) : k < m => Pool'[c][k] < Pool'[c][m]
    BY <1>6 DEF PoolInv
  <2> HIDE DEF i, cu, T, r
  <2>1. /\ \A k \in 1..Len(Pool[c]) :
             /\ Pool[c][k] \in 1..n
             /\ ThreadGroup'[Pool[c][k]].st = "ready"
             /\ ThreadGroup'[Pool[c][k]].CU = c
        /\ \A k, m \in 1..Len(Pool[c]) : k < m => Pool[c][k] < Pool[c][m]
    <3>1. /\ \A k \in 1..Len(Pool[c]) :
               /\ Pool[c][k] \in 1..n
               /\ ThreadGroup[Pool[c][k]].st = "ready"
               /\ ThreadGroup[Pool[c][k]].CU = c
          /\ \A k, m \in 1..Len(Pool[c]) : k < m => Pool[c][k] < Pool[c][m]
      BY DEF IInv, PoolInv
    <3> HIDE DEF n
    <3>2. \A k \in 1..Len(Pool[c]) : ThreadGroup'[Pool[c][k]] = ThreadGroup[Pool[c][k]]
      BY <1>6, <3>1
    <3> QED BY <3>1, <3>2
  <2>2. CASE c # cu
    <3>1. Pool'[c] = Pool[c]
      BY <2>2, <1>9
    <3>2. 1..n \subseteq 1..i
      BY <1>1
    <3> QED BY <2>1, <3>1, <3>2
  <2>3. CASE c = cu
    <3> DEFINE l == Len(Pool[cu])
    <3>1. l \in Nat /\ Len(Pool'[c]) = l + 1
      BY <2>3, <1>8, <1>9
    <3>2. \A k \in 1..(l + 1) : k \in 1..l \/ k = l + 1
      BY <3>1
    <3>3. Pool'[c][l + 1] = i /\ \A k \in 1..l : Pool'[c][k] = Pool[c][k]
      BY <2>3, <1>9
    <3>4. ThreadGroup'[i].st = "ready" /\ ThreadGroup'[i].CU = c
      BY <2>3, <1>5, <1>6
    <3>5. /\ \A k \in 1..l : /\ Pool[c][k] \in 1..n
                           /\ ThreadGroup'[Pool[c][k]].st = "ready"
                           /\ ThreadGroup'[Pool[c][k]].CU = c
          /\ \A k, m \in 1..l : k < m => Pool[c][k] < Pool[c][m]
      BY <2>1, <2>3
    <3> HIDE DEF l
    <3>6. \A k \in 1..(l + 1) : /\ Pool'[c][k] \in 1..i
                               /\ ThreadGroup'[Pool'[c][k]].st = "ready"
                               /\ ThreadGroup'[Pool'[c][k]].CU = c
      <4> TAKE k \in 1..(l + 1)
      <4>1. CASE k \in 1..l
        <5>1. Pool[c][k] \in 1..i
          BY <4>1, <3>5, <1>1
        <5> QED BY <4>1, <5>1, <3>3, <3>5
      <4>2. CASE k = l + 1
        <5>1. i \in 1..i
          BY <1>1
        <5> QED BY <4>2, <5>1, <3>3, <3>4
      <4> QED BY <4>1, <4>2, <3>2
    <3>7. ASSUME NEW k \in 1..(l + 1), NEW m \in 1..(l + 1), k < m
          PROVE  Pool'[c][k] < Pool'[c][m]
      <4>1. k \in 1..l /\ Pool'[c][k] = Pool[c][k] /\ Pool[c][k] \in 1..n
        BY <3>1, <3>3, <3>5, <3>7
      <4>2. CASE m \in 1..l
        BY <4>1, <4>2, <3>3, <3>5, <3>7
      <4>3. CASE m = l + 1
        BY <4>1, <4>3, <3>3, <1>1
      <4> QED BY <4>2, <4>3, <3>2
    <3> QED BY <3>1, <3>6, <3>7
  <2> QED BY <2>2, <2>3
<1>14. RunInv'
  BY <1>1, <1>2, <1>6 DEF IInv, RunInv
<1> QED BY <1>10, <1>11, <1>12, <1>13, <1>14 DEF IInv

(* What a step does to the group when it changes one thread and leaves it   *)
(* where it is.                                                             *)
LEMMA ThreadChange ==
  ASSUME IInv, NEW i \in 1..Len(ThreadGroup), NEW e \in ThreadType,
         ThreadGroup' = [ThreadGroup EXCEPT ![i] = e]
  PROVE  /\ ThreadGroup' \in Seq(ThreadType)
         /\ Len(ThreadGroup') = Len(ThreadGroup)
         /\ \A j \in 1..Len(ThreadGroup) :
              ThreadGroup'[j] = IF j = i THEN e ELSE ThreadGroup[j]
<1>1. ThreadGroup \in Seq(ThreadType)
  BY DEF IInv, TypeOK
<1> QED BY <1>1, ExceptSeq

(* A thread that is in no pool may change without disturbing the pools.     *)
LEMMA PoolUndisturbed ==
  ASSUME IInv, NEW i \in 1..Len(ThreadGroup), NEW e \in ThreadType,
         ThreadGroup' = [ThreadGroup EXCEPT ![i] = e],
         ThreadGroup[i].st # "ready", UNCHANGED Pool
  PROVE  PoolInv'
BY ThreadChange DEF IInv, PoolInv

LEMMA FreeThreadInv ==
  ASSUME IInv, FreeThread
  PROVE  IInv'
<1> DEFINE i == joined + 1
           e == [ThreadGroup[i] EXCEPT !.st = "freed"]
<1>1. ThreadGroup \in Seq(ThreadType) /\ Len(ThreadGroup) \in Nat /\ joined \in Nat
  BY LenProperties DEF IInv, TypeOK
<1>2. i \in 1..Len(ThreadGroup)
  BY <1>1 DEF FreeThread
<1>3. ThreadGroup[i] \in ThreadType /\ ThreadGroup[i].st = "done"
  BY <1>1, <1>2, ElementOfSeq DEF FreeThread
<1>4. /\ e \in ThreadType /\ e.st = "freed" /\ e.CU = ThreadGroup[i].CU
      /\ e.WG = ThreadGroup[i].WG /\ e.ThreadID = ThreadGroup[i].ThreadID
  BY <1>3 DEF ThreadType
<1>5. ThreadGroup' = [ThreadGroup EXCEPT ![i] = e]
  BY DEF FreeThread
<1>6. /\ joined' = i /\ hostPc' = "finish"
      /\ hostPc # "idle"
      /\ UNCHANGED <<ret, launch, CommonArgs, Pool, running, reg, mem, expected>>
  BY DEF FreeThread
<1> HIDE DEF e
<1>7. /\ ThreadGroup' \in Seq(ThreadType)
      /\ Len(ThreadGroup') = Len(ThreadGroup)
      /\ \A j \in 1..Len(ThreadGroup) : ThreadGroup'[j] = IF j = i THEN e ELSE ThreadGroup[j]
  BY <1>2, <1>4, <1>5, ThreadChange
<1>8. TypeOK'
  BY <1>1, <1>6, <1>7 DEF IInv, TypeOK
<1>9. HostInv'
  BY <1>1, <1>2, <1>6, <1>7 DEF IInv, HostInv
<1>10. GroupInv'
  <2> SUFFICES ASSUME NEW j \in 1..Len(ThreadGroup)
               PROVE  /\ ThreadGroup'[j].st = "freed" <=> j <= i
                      /\ j <= NumThreads(CommonArgs.req)
                      /\ ThreadGroup'[j].CU = CoreNum(j)
                      /\ ThreadGroup'[j].ThreadID = ThreadID(j)
                      /\ ThreadGroup'[j].WG = WorkGroupOf(CommonArgs.req, GroupIndex(j))
                      /\ ThreadGroup'[j].st \in {"load", "store"} => ThreadGroup'[j].args = CommonArgs
    BY <1>6, <1>7 DEF GroupInv
  <2>1. /\ ThreadGroup[j].st = "freed" <=> j <= joined
        /\ j <= NumThreads(CommonArgs.req)
        /\ ThreadGroup[j].CU = CoreNum(j)
        /\ ThreadGroup[j].ThreadID = ThreadID(j)
        /\ ThreadGroup[j].WG = WorkGroupOf(CommonArgs.req, GroupIndex(j))
        /\ ThreadGroup[j].st \in {"load", "store"} => ThreadGroup[j].args = CommonArgs
    BY DEF IInv, GroupInv
  <2>2. CASE j = i
    BY <2>1, <2>2, <1>4, <1>7
  <2>3. CASE j # i
    BY <2>1, <2>3, <1>1, <1>7
  <2> QED BY <2>2, <2>3
<1>11. PoolInv'
  BY <1>2, <1>3, <1>4, <1>5, <1>6, PoolUndisturbed
<1>12. RunInv'
  BY <1>2, <1>3, <1>6, <1>7 DEF IInv, RunInv
<1> QED BY <1>8, <1>9, <1>10, <1>11, <1>12 DEF IInv

-----------------------------------------------------------------------------
(* Steps of the compute units.                                              *)

(* A ULT exists only while the host is in a call.                           *)
LEMMA ThreadsWithinCall ==
  ASSUME IInv, NEW i \in 1..Len(ThreadGroup)
  PROVE  /\ hostPc # "idle"
         /\ CommonArgs \in [launch : 1..MaxLaunches, req : Requests]
         /\ CommonArgs.launch = launch
         /\ CommonArgs.req \in Requests /\ Valid(CommonArgs.req)
         /\ ThreadGroup[i] \in ThreadType
<1>1. hostPc # "idle"
  BY EmptySeq DEF IInv, HostInv
<1> QED BY <1>1, ElementOfSeq DEF IInv, HostInv, TypeOK

(* What every step of a ULT keeps: the host's part of the invariant, and    *)
(* the place of each thread.                                                *)
LEMMA ULTStepKeeps ==
  ASSUME IInv, NEW i \in 1..Len(ThreadGroup), NEW e \in ThreadType,
         ThreadGroup' = [ThreadGroup EXCEPT ![i] = e],
         ThreadGroup[i].st # "freed", e.st # "freed",
         e.CU = ThreadGroup[i].CU, e.WG = ThreadGroup[i].WG, e.ThreadID = ThreadGroup[i].ThreadID,
         e.st \in {"load", "store"} => e.args = CommonArgs,
         UNCHANGED hostVars
  PROVE  HostInv' /\ GroupInv'
<1>1. /\ ThreadGroup' \in Seq(ThreadType)
      /\ Len(ThreadGroup') = Len(ThreadGroup)
      /\ \A j \in 1..Len(ThreadGroup) : ThreadGroup'[j] = IF j = i THEN e ELSE ThreadGroup[j]
  BY ThreadChange
<1>2. UNCHANGED <<hostPc, ret, launch, CommonArgs, joined>>
  BY DEF hostVars
<1>3. HostInv'
  <2>1. hostPc # "idle"
    BY ThreadsWithinCall
  <2> QED BY <2>1, <1>1, <1>2 DEF IInv, HostInv
<1>4. GroupInv'
  <2> SUFFICES ASSUME NEW j \in 1..Len(ThreadGroup)
               PROVE  /\ ThreadGroup'[j].st = "freed" <=> j <= joined
                      /\ j <= NumThreads(CommonArgs.req)
                      /\ ThreadGroup'[j].CU = CoreNum(j)
                      /\ ThreadGroup'[j].ThreadID = ThreadID(j)
                      /\ ThreadGroup'[j].WG = WorkGroupOf(CommonArgs.req, GroupIndex(j))
                      /\ ThreadGroup'[j].st \in {"load", "store"} => ThreadGroup'[j].args = CommonArgs
    BY <1>1, <1>2 DEF GroupInv
  <2>1. /\ ThreadGroup[j].st = "freed" <=> j <= joined
        /\ j <= NumThreads(CommonArgs.req)
        /\ ThreadGroup[j].CU = CoreNum(j)
        /\ ThreadGroup[j].ThreadID = ThreadID(j)
        /\ ThreadGroup[j].WG = WorkGroupOf(CommonArgs.req, GroupIndex(j))
        /\ ThreadGroup[j].st \in {"load", "store"} => ThreadGroup[j].args = CommonArgs
    BY DEF IInv, GroupInv
  <2>2. CASE j = i
    BY <2>1, <2>2, <1>1
  <2>3. CASE j # i
    BY <2>1, <2>3, <1>1
  <2> QED BY <2>2, <2>3
<1> QED BY <1>3, <1>4

(* A stream starts the oldest thread of its pool; the threads left in the   *)
(* pool are younger, so none of them is the one that starts.                *)
LEMMA DispatchInv ==
  ASSUME IInv, NEW c \in CUs, Dispatch(c)
  PROVE  IInv'
<1> DEFINE i == Head(Pool[c])
           r == CommonArgs.req
           e == [ThreadGroup[i] EXCEPT !.st = "load", !.args = CommonArgs,
                                       !.ind = FirstIndex(r, ThreadSize, ThreadGroup[i].ThreadID)]
           l == Len(Pool[c])
<1>1. Pool \in [CUs -> Seq(Nat)] /\ Pool[c] \in Seq(Nat) /\ Pool[c] # <<>>
  BY DEF IInv, TypeOK, Dispatch
<1>2. /\ l \in Nat \ {0} /\ i = Pool[c][1]
      /\ Tail(Pool[c]) \in Seq(Nat) /\ Len(Tail(Pool[c])) = l - 1
      /\ \A k \in 1..(l - 1) : Tail(Pool[c])[k] = Pool[c][k + 1]
  BY <1>1, HeadTailProperties, EmptySeq
<1>3. i \in 1..Len(ThreadGroup) /\ ThreadGroup[i].st = "ready" /\ ThreadGroup[i].CU = c
  BY <1>2 DEF IInv, PoolInv
<1>4. /\ running[c] = 0
      /\ running' = [running EXCEPT ![c] = i]
      /\ ThreadGroup' = [ThreadGroup EXCEPT ![i] = e]
      /\ Pool' = [Pool EXCEPT ![c] = Tail(@)]
      /\ UNCHANGED <<hostVars, reg, mem, expected>>
  BY DEF Dispatch
<1>5. /\ CommonArgs \in [launch : 1..MaxLaunches, req : Requests]
      /\ r \in Requests /\ Valid(r)
      /\ ThreadGroup[i] \in ThreadType
  BY <1>3, ThreadsWithinCall
<1>6. FirstIndex(r, ThreadSize, ThreadGroup[i].ThreadID) \in [Dims -> Nat]
  <2>1. \A d \in 1..r.dim : r.lsz[d] \in Nat
    BY <1>5, ValidFacts
  <2>2. ThreadGroup[i].ThreadID \in Nat
    BY <1>5 DEF ThreadType
  <2> QED BY <2>1, <2>2, NodeFacts, FirstIndexType
<1>7. /\ e \in ThreadType /\ e.st = "load" /\ e.CU = ThreadGroup[i].CU
      /\ e.WG = ThreadGroup[i].WG /\ e.ThreadID = ThreadGroup[i].ThreadID
      /\ e.args = CommonArgs
  BY <1>5, <1>6 DEF ThreadType
<1> HIDE DEF e, r
<1>8. /\ ThreadGroup' \in Seq(ThreadType)
      /\ Len(ThreadGroup') = Len(ThreadGroup)
      /\ \A j \in 1..Len(ThreadGroup) : ThreadGroup'[j] = IF j = i THEN e ELSE ThreadGroup[j]
  BY <1>3, <1>4, <1>7, ThreadChange
<1>9. HostInv' /\ GroupInv'
  BY <1>3, <1>4, <1>7, ULTStepKeeps
<1>10. TypeOK'
  <2>1. Pool' \in [CUs -> Seq(Nat)]
    BY <1>1, <1>2, <1>4
  <2>2. running' \in [CUs -> Nat]
    BY <1>3, <1>4 DEF IInv, TypeOK
  <2> QED BY <2>1, <2>2, <1>4, <1>8 DEF IInv, TypeOK, hostVars
<1>11. PoolInv'
  <2> SUFFICES ASSUME NEW d \in CUs
               PROVE  /\ \A k \in 1..Len(Pool'[d]) :
                           /\ Pool'[d][k] \in 1..Len(ThreadGroup)
                           /\ ThreadGroup'[Pool'[d][k]].st = "ready"
                           /\ ThreadGroup'[Pool'[d][k]].CU = d
                      /\ \A k, m \in 1..Len(Pool'[d]) : k < m => Pool'[d][k] < Pool'[d][m]
    BY <1>8 DEF PoolInv
  <2>1. /\ \A k \in 1..Len(Pool[d]) :
             /\ Pool[d][k] \in 1..Len(ThreadGroup)
             /\ ThreadGroup[Pool[d][k]].st = "ready"
             /\ ThreadGroup[Pool[d][k]].CU = d
        /\ \A k, m \in 1..Len(Pool[d]) : k < m => Pool[d][k] < Pool[d][m]
    BY DEF IInv, PoolInv
  <2> HIDE DEF i
  <2>2. CASE d # c
    BY <2>1, <2>2, <1>1, <1>3, <1>4, <1>8
  <2>3. CASE d = c
    <3>1. Pool'[d] = Tail(Pool[c]) /\ Len(Pool'[d]) = l - 1
      BY <2>3, <1>1, <1>2, <1>4
    <3>2. \A k \in 1..(l - 1) : k + 1 \in 1..l /\ 1 < k + 1 /\ 1 \in 1..l
      BY <1>2
    <3>3. \A k \in 1..(l - 1) : Pool'[d][k] = Pool[c][k + 1] /\ Pool[c][k + 1] # i
      BY <2>1, <2>3, <3>1, <3>2, <1>2, <1>3
    <3> HIDE DEF l
    <3>4. ASSUME NEW k \in 1..(l - 1), NEW m \in 1..(l - 1), k < m
          PROVE  Pool'[d][k] < Pool'[d][m]
      BY <2>1, <2>3, <3>2, <3>3, <3>4, <1>2 DEF l
    <3>5. ASSUME NEW k \in 1..(l - 1)
          PROVE  /\ Pool'[d][k] \in 1..Len(ThreadGroup)
                 /\ ThreadGroup'[Pool'[d][k]].st = "ready"
                 /\ ThreadGroup'[Pool'[d][k]].CU = d
      BY <2>1, <2>3, <3>2, <3>3, <1>8 DEF l
    <3> QED BY <3>1, <3>4, <3>5
  <2> QED BY <2>2, <2>3
<1>12. RunInv'
  BY <1>3, <1>4, <1>7, <1>8 DEF IInv, RunInv, TypeOK
<1> QED BY <1>9, <1>10, <1>11, <1>12 DEF IInv

(* The running thread of a compute unit.                                    *)
LEMMA RunningThread ==
  ASSUME IInv, NEW c \in CUs, running[c] # 0
  PROVE  /\ running[c] \in 1..Len(ThreadGroup)
         /\ ThreadGroup[running[c]] \in ThreadType
         /\ ThreadGroup[running[c]].st \in {"load", "store"}
         /\ ThreadGroup[running[c]].CU = c
         /\ ThreadGroup[running[c]].args = CommonArgs
<1>1. running[c] \in 1..Len(ThreadGroup) /\ ThreadGroup[running[c]].st \in {"load", "store"}
      /\ ThreadGroup[running[c]].CU = c
  BY DEF IInv, RunInv
<1>2. ThreadGroup[running[c]] \in ThreadType
  BY <1>1, ThreadsWithinCall
<1>3. ThreadGroup[running[c]].args = CommonArgs
  BY <1>1 DEF IInv, GroupInv
<1> QED BY <1>1, <1>2, <1>3

LEMMA StoreType ==
  ASSUME IInv, NEW c \in CUs, Store(c)
  PROVE  mem' \in [Cells -> Nat] /\ reg' \in [CUs -> [Cells -> Nat]]
<1>1. mem \in [Cells -> Nat] /\ reg \in [CUs -> [Cells -> Nat]]
  BY DEF IInv, TypeOK
<1>2. Zeros \in [Cells -> Nat]
  BY DEF Zeros
<1> QED BY <1>1, <1>2 DEF Store

LEMMA LoadStepInv ==
  ASSUME IInv, NEW c \in CUs, LoadStep(c)
  PROVE  IInv'
<1> DEFINE i == running[c]
           e == [ThreadGroup[i] EXCEPT !.st = "store"]
<1>1. /\ i \in 1..Len(ThreadGroup) /\ ThreadGroup[i] \in ThreadType
      /\ ThreadGroup[i].st = "load" /\ ThreadGroup[i].CU = c /\ ThreadGroup[i].args = CommonArgs
  BY RunningThread DEF LoadStep
<1>2. /\ e \in ThreadType /\ e.st = "store" /\ e.CU = ThreadGroup[i].CU
      /\ e.WG = ThreadGroup[i].WG /\ e.ThreadID = ThreadGroup[i].ThreadID /\ e.args = CommonArgs
  BY <1>1 DEF ThreadType
<1>3. /\ ThreadGroup' = [ThreadGroup EXCEPT ![i] = e]
      /\ UNCHANGED <<hostVars, Pool, running, mem, expected>>
  BY DEF LoadStep
<1>4. reg' \in [CUs -> [Cells -> Nat]]
  <2>1. mem \in [Cells -> Nat] /\ reg \in [CUs -> [Cells -> Nat]]
    BY DEF IInv, TypeOK
  <2> QED BY <2>1 DEF LoadStep
<1> HIDE DEF e, i
<1>5. /\ ThreadGroup' \in Seq(ThreadType)
      /\ Len(ThreadGroup') = Len(ThreadGroup)
      /\ \A j \in 1..Len(ThreadGroup) : ThreadGroup'[j] = IF j = i THEN e ELSE ThreadGroup[j]
  BY <1>1, <1>2, <1>3, ThreadChange
<1>6. HostInv' /\ GroupInv'
  BY <1>1, <1>2, <1>3, ULTStepKeeps
<1>7. PoolInv'
  BY <1>1, <1>2, <1>3, PoolUndisturbed
<1>8. TypeOK'
  BY <1>3, <1>4, <1>5 DEF IInv, TypeOK, hostVars
<1>9. RunInv'
  BY <1>1, <1>2, <1>3, <1>5 DEF IInv, RunInv
<1> QED BY <1>6, <1>7, <1>8, <1>9 DEF IInv

LEMMA StoreStepInv ==
  ASSUME IInv, NEW c \in CUs, StoreStep(c)
  PROVE  IInv'
<1> DEFINE i == running[c]
           T == ThreadGroup[i]
           next == NextIndex(T.args.req, ThreadSize, T.ThreadID, VL, T.ind)
           e == [T EXCEPT !.st = "load", !.ind = next]
<1>1. /\ i \in 1..Len(ThreadGroup) /\ T \in ThreadType
      /\ T.st = "store" /\ T.CU = c /\ T.args = CommonArgs
  BY RunningThread DEF StoreStep
<1>2. next \in [Dims -> Nat]
  <2>1. T.args.req \in Requests /\ Valid(T.args.req)
    BY <1>1, ThreadsWithinCall
  <2>2. \A d \in 1..T.args.req.dim : T.args.req.lsz[d] \in Nat
    BY <2>1, ValidFacts
  <2>3. ~LoopDone(T.args.req, ThreadSize, T.ThreadID, VL, T.ind)
    BY DEF StoreStep, Ends
  <2>4. T.ThreadID \in Nat /\ T.ind \in [Dims -> Nat]
    BY <1>1 DEF ThreadType
  <2> QED BY <2>2, <2>3, <2>4, NodeFacts, VLAssumption, NextIndexType
<1>3. /\ e \in ThreadType /\ e.st = "load" /\ e.CU = T.CU
      /\ e.WG = T.WG /\ e.ThreadID = T.ThreadID /\ e.args = CommonArgs
  BY <1>1, <1>2 DEF ThreadType
<1>4. /\ ThreadGroup' = [ThreadGroup EXCEPT ![i] = e]
      /\ UNCHANGED <<hostVars, Pool, running, expected>>
      /\ Store(c)
  BY DEF StoreStep
<1> HIDE DEF e, i, next
<1>5. /\ ThreadGroup' \in Seq(ThreadType)
      /\ Len(ThreadGroup') = Len(ThreadGroup)
      /\ \A j \in 1..Len(ThreadGroup) : ThreadGroup'[j] = IF j = i THEN e ELSE ThreadGroup[j]
  BY <1>1, <1>3, <1>4, ThreadChange
<1>6. HostInv' /\ GroupInv'
  BY <1>1, <1>3, <1>4, ULTStepKeeps
<1>7. PoolInv'
  BY <1>1, <1>3, <1>4, PoolUndisturbed
<1>8. TypeOK'
  BY <1>4, <1>5, StoreType DEF IInv, TypeOK, hostVars
<1>9. RunInv'
  BY <1>1, <1>3, <1>4, <1>5 DEF IInv, RunInv
<1> QED BY <1>6, <1>7, <1>8, <1>9 DEF IInv

LEMMA StoreExitInv ==
  ASSUME IInv, NEW c \in CUs, StoreExit(c)
  PROVE  IInv'
<1> DEFINE i == running[c]
           T == ThreadGroup[i]
           e == [T EXCEPT !.st = "done"]
<1>1. /\ i \in 1..Len(ThreadGroup) /\ T \in ThreadType
      /\ T.st = "store" /\ T.CU = c /\ T.args = CommonArgs
  BY RunningThread DEF StoreExit
<1>2. e \in ThreadType /\ e.st = "done" /\ e.CU = T.CU /\ e.WG = T.WG /\ e.ThreadID = T.ThreadID
  BY <1>1 DEF ThreadType
<1>3. /\ ThreadGroup' = [ThreadGroup EXCEPT ![i] = e]
      /\ running' = [running EXCEPT ![c] = 0]
      /\ UNCHANGED <<hostVars, Pool, expected>>
      /\ Store(c)
  BY DEF StoreExit
<1> HIDE DEF e, i
<1>4. /\ ThreadGroup' \in Seq(ThreadType)
      /\ Len(ThreadGroup') = Len(ThreadGroup)
      /\ \A j \in 1..Len(ThreadGroup) : ThreadGroup'[j] = IF j = i THEN e ELSE ThreadGroup[j]
  BY <1>1, <1>2, <1>3, ThreadChange
<1>5. HostInv' /\ GroupInv'
  BY <1>1, <1>2, <1>3, ULTStepKeeps
<1>6. PoolInv'
  BY <1>1, <1>2, <1>3, PoolUndisturbed
<1>7. running' \in [CUs -> Nat]
  BY <1>3 DEF IInv, TypeOK
<1>8. TypeOK'
  BY <1>3, <1>4, <1>7, StoreType DEF IInv, TypeOK, hostVars
<1>9. RunInv'
  <2> SUFFICES ASSUME NEW d \in CUs, running'[d] # 0
               PROVE  /\ running'[d] \in 1..Len(ThreadGroup')
                      /\ ThreadGroup'[running'[d]].st \in {"load", "store"}
                      /\ ThreadGroup'[running'[d]].CU = d
    BY DEF RunInv
  <2>1. d # c /\ running'[d] = running[d]
    BY <1>3 DEF IInv, TypeOK
  <2>2. running[d] # i /\ running[d] \in 1..Len(ThreadGroup)
    BY <2>1, <1>1, RunningThread
  <2> QED BY <2>1, <2>2, <1>4, RunningThread
<1> QED BY <1>5, <1>6, <1>8, <1>9 DEF IInv

-----------------------------------------------------------------------------
LEMMA NextInv == IInv /\ [Next]_vars => IInv'
<1> SUFFICES ASSUME IInv, [Next]_vars PROVE IInv'
  OBVIOUS
<1>1. CASE \E r \in Requests : Reject(r)
  BY <1>1, RejectInv
<1>2. CASE \E r \in Requests : Launch(r)
  BY <1>2, LaunchInv
<1>3. CASE HostStep
  BY <1>3, CreateThreadInv, StartFinishInv, SuspendInv, FreeThreadInv, ReturnInv DEF HostStep
<1>4. ASSUME NEW c \in CUs, CUStep(c) PROVE IInv'
  BY <1>4, DispatchInv, LoadStepInv, StoreStepInv, StoreExitInv DEF CUStep
<1>5. CASE UNCHANGED vars
  BY <1>5 DEF IInv, TypeOK, HostInv, GroupInv, PoolInv, RunInv, vars
<1> QED BY <1>1, <1>2, <1>3, <1>4, <1>5 DEF Next

THEOREM InductiveInvariant == Spec => []IInv
BY InitInv, NextInv, PTL DEF Spec

(* Every variable keeps its type; in particular a thread is never created   *)
(* on a compute unit that does not exist, and loop indices stay natural     *)
(* numbers (Thread.cpp computes them in size_t).                            *)
THEOREM TypeCorrect == Spec => []TypeOK
<1>1. IInv => TypeOK
  BY DEF IInv
<1> QED BY <1>1, InductiveInvariant, PTL

(* No ULT outlives its Thread object, for any number of compute units,      *)
(* requests and launches: finishExecution's join before delete is enough.   *)
THEOREM NoULTDangles == Spec => []NoDanglingULT
<1>1. IInv => NoDanglingULT
  <2> SUFFICES ASSUME IInv, NEW c \in CUs
               PROVE  /\ \A k \in DOMAIN Pool[c] : Live(Pool[c][k])
                      /\ running[c] # 0 => Live(running[c])
    BY DEF NoDanglingULT
  <2>1. DOMAIN Pool[c] = 1..Len(Pool[c]) /\ Threads = 1..Len(ThreadGroup)
    BY LenProperties DEF IInv, TypeOK, Threads
  <2>2. \A k \in DOMAIN Pool[c] : Live(Pool[c][k])
    BY <2>1 DEF IInv, PoolInv, Live
  <2>3. running[c] # 0 => Live(running[c])
    BY <2>1 DEF IInv, RunInv, Live
  <2> QED BY <2>2, <2>3
<1> QED BY <1>1, InductiveInvariant, PTL

(* A ULT never works with the arguments of another launch, although it      *)
(* reads the shared CommonArgs without a lock: the host cannot overwrite    *)
(* them before every ULT of the launch has been joined.                     *)
THEOREM ArgsAreOfThisLaunch == Spec => []ArgsOfThisLaunch
<1>1. IInv => ArgsOfThisLaunch
  BY RunningThread, ThreadsWithinCall DEF ArgsOfThisLaunch
<1> QED BY <1>1, InductiveInvariant, PTL

-----------------------------------------------------------------------------
(* Placement on nodes.                                                      *)

(* Different indices are different work groups.                             *)
LEMMA WorkGroupInjective ==
  ASSUME NEW r \in Requests, Valid(r), NumThreads(r) > 0,
         NEW g \in Nat, NEW h \in Nat, WorkGroupOf(r, g) = WorkGroupOf(r, h)
  PROVE  g = h
<1> DEFINE n1 == NumWorkGroups(r, 1)
           n2 == NumWorkGroups(r, 2)
           n3 == NumWorkGroups(r, 3)
<1>1. n1 \in Nat /\ n2 \in Nat /\ n3 \in Nat
  BY ValidFacts DEF Dims
<1>2. n1 * n2 * n3 * ThreadSize > 0
  BY DEF NumThreads
<1>3. /\ g % n1 = h % n1
      /\ (g \div n1) % n2 = (h \div n1) % n2
      /\ g \div (n1 * n2) = h \div (n1 * n2)
  BY DEF WorkGroupOf
<1> HIDE DEF n1, n2, n3
<1>4. n1 \in Nat \ {0} /\ n2 \in Nat \ {0}
  BY <1>1, <1>2, NodeFacts, PositiveFactors
<1>5. (g \div n1) \div n2 = (h \div n1) \div n2
  BY <1>3, <1>4, DivDiv
<1> DEFINE x == g \div n1
           y == h \div n1
<1>6. x \in Nat /\ g = n1 * x + (g % n1)
  BY <1>4, DivMod
<1>7. y \in Nat /\ h = n1 * y + (h % n1)
  BY <1>4, DivMod
<1>8. x \div n2 = y \div n2 /\ x % n2 = y % n2
  BY <1>3, <1>5
<1> HIDE DEF x, y
<1>9. x = n2 * (x \div n2) + (x % n2) /\ y = n2 * (y \div n2) + (y % n2)
  BY <1>4, <1>6, <1>7, DivMod
<1>10. x = y
  BY <1>8, <1>9
<1> QED BY <1>3, <1>6, <1>7, <1>10

(* The node of a compute unit is that of its thread's work group.           *)
LEMMA NodeOfCore ==
  ASSUME NEW i \in Nat \ {0}
  PROVE  CoreNum(i) \div NumCoresPerNode = GroupIndex(i) % NumNodes
<1> DEFINE n == GroupIndex(i) % NumNodes
           c == CoreNum(i)
<1>1. n \in Nat /\ ThreadID(i) \in 0..(ThreadSize - 1) /\ c \in Nat
  <2>1. GroupIndex(i) \in Nat
    BY CoreNumInRange
  <2>2. n \in Nat
    BY <2>1, DivMod
  <2> QED BY <2>2, CoreNumInRange DEF CUs
<1>2. c = n * ThreadSize + ThreadID(i)
  BY NodeFacts DEF CoreNum
<1>3. c \div ThreadSize \in Nat /\ c % ThreadSize \in 0..(ThreadSize - 1)
      /\ c = ThreadSize * (c \div ThreadSize) + (c % ThreadSize)
  BY <1>1, NodeFacts, DivMod, Zenon
<1> HIDE DEF n, c
<1>4. c = (c \div ThreadSize) * ThreadSize + (c % ThreadSize)
  BY <1>3, NodeFacts
<1> DEFINE q == c \div ThreadSize
           m == c % ThreadSize
<1>5. q \in Nat /\ m \in 0..(ThreadSize - 1) /\ q * ThreadSize + m = n * ThreadSize + ThreadID(i)
  BY <1>2, <1>3, <1>4
<1> HIDE DEF q, m
<1>6. q = n
  BY <1>1, <1>5, NodeFacts, DivUnique
<1> QED BY <1>6, NodeFacts DEF q, n, c

(* createThreadGroup puts the ULTs of a work group on different cores of    *)
(* one node, for every number of nodes and cores, also when the division of *)
(* cores among nodes has a remainder.                                       *)
THEOREM GroupsStayOnTheirNode == Spec => []WorkGroupOnOneNode
<1>1. IInv => WorkGroupOnOneNode
  <2> SUFFICES ASSUME IInv, NEW i \in Threads, NEW j \in Threads, i # j,
                      ThreadGroup[i].WG = ThreadGroup[j].WG
               PROVE  /\ ThreadGroup[i].CU # ThreadGroup[j].CU
                      /\ ThreadGroup[i].CU \div NumCoresPerNode = ThreadGroup[j].CU \div NumCoresPerNode
    BY DEF WorkGroupOnOneNode
  <2> DEFINE r == CommonArgs.req
             g == GroupIndex(i)
             h == GroupIndex(j)
  <2>1. i \in 1..Len(ThreadGroup) /\ j \in 1..Len(ThreadGroup) /\ Len(ThreadGroup) \in Nat
    BY LenProperties DEF IInv, TypeOK, Threads
  <2>2. i \in Nat \ {0} /\ j \in Nat \ {0}
    BY <2>1
  <2>3. r \in Requests /\ Valid(r) /\ i <= NumThreads(r)
    BY <2>1, ThreadsWithinCall DEF IInv, GroupInv
  <2>4. ThreadGroup[i].CU = CoreNum(i) /\ ThreadGroup[j].CU = CoreNum(j)
    BY <2>1 DEF IInv, GroupInv
  <2>5. WorkGroupOf(r, g) = WorkGroupOf(r, h)
    BY <2>1 DEF IInv, GroupInv
  <2>6. NumThreads(r) > 0
    <3>1. /\ NumWorkGroups(r, 1) \in Nat /\ NumWorkGroups(r, 2) \in Nat
          /\ NumWorkGroups(r, 3) \in Nat
      BY <2>3, ValidFacts DEF Dims
    <3>2. NumThreads(r) \in Nat
      BY <3>1, NodeFacts DEF NumThreads
    <3> QED BY <2>2, <2>3, <3>2
  <2>7. g \in Nat /\ h \in Nat
    BY <2>2, CoreNumInRange
  <2>8. g = h
    BY <2>3, <2>5, <2>6, <2>7, WorkGroupInjective
  <2>9. CoreNum(i) \div NumCoresPerNode = CoreNum(j) \div NumCoresPerNode
    BY <2>2, <2>8, NodeOfCore
  <2>10. ThreadID(i) # ThreadID(j)
    <3>1. i - 1 = ThreadSize * g + ThreadID(i) /\ j - 1 = ThreadSize * h + ThreadID(j)
      <4>1. i - 1 \in Nat /\ j - 1 \in Nat
        BY <2>2
      <4> QED BY <4>1, NodeFacts, DivMod, Zenon DEF GroupIndex, ThreadID
    <3>2. i - 1 # j - 1
      BY <2>2
    <3> QED BY <2>8, <3>1, <3>2
  <2>11. CoreNum(i) # CoreNum(j)
    <3>1. ThreadID(i) \in Nat /\ ThreadID(j) \in Nat
      BY <2>2, CoreNumInRange, NodeFacts
    <3> DEFINE b == (g % NumNodes) * NumCoresPerNode
    <3>2. b \in Nat
      <4>1. g % NumNodes \in Nat
        BY <2>7, DivMod
      <4> QED BY <4>1, NodeFacts
    <3>3. CoreNum(i) = b + ThreadID(i) /\ CoreNum(j) = b + ThreadID(j)
      BY <2>8 DEF CoreNum
    <3> HIDE DEF b
    <3> QED BY <2>10, <3>1, <3>2, <3>3
  <2> QED BY <2>4, <2>9, <2>11
<1> QED BY <1>1, InductiveInvariant, PTL

-----------------------------------------------------------------------------
(* The threads of a launch: every work group has a thread for each chunk.   *)

LEMMA CallIsLaunch ==
  ASSUME NEW r \in Requests, Valid(r)
  PROVE  LaunchType(r)
<1>1. r.dim \in Dims
  BY DEF Valid
<1>2. /\ r.offs \in Seq(Nat) /\ r.gsz \in Seq(Nat) /\ r.lsz \in Seq(Nat \ {0})
      /\ Len(r.offs) = r.dim /\ Len(r.gsz) = r.dim /\ Len(r.lsz) = r.dim
  BY RequestsAssumption DEF RequestType
<1>3. /\ r.offs \in [1..r.dim -> Nat] /\ r.gsz \in [1..r.dim -> Nat]
      /\ r.lsz \in [1..r.dim -> Nat \ {0}]
  BY <1>2, LenProperties
<1> QED BY <1>1, <1>3 DEF LaunchType

(* The quotient of a number below a product.                                *)
LEMMA DivBelow ==
  ASSUME NEW a \in Nat, NEW b \in Nat \ {0}, NEW k \in Nat, a < b * k
  PROVE  a \div b \in Nat /\ a \div b < k
<1> DEFINE q == a \div b
<1>1. q \in Nat /\ a % b \in 0..(b - 1) /\ a = b * q + (a % b)
  BY DivMod
<1> HIDE DEF q
<1>2. ASSUME k <= q PROVE FALSE
  <2>1. k * b <= q * b
    BY <1>1, <1>2, MulMono
  <2>2. k * b = b * k /\ q * b = b * q /\ b * k \in Nat /\ b * q \in Nat
    BY <1>1
  <2> QED BY <1>1, <2>1, <2>2
<1> QED BY <1>1, <1>2 DEF q

(* Quotient and remainder of a sum.                                         *)
LEMMA SumDivMod ==
  ASSUME NEW b \in Nat \ {0}, NEW q \in Nat, NEW m \in 0..(b - 1)
  PROVE  /\ m + b * q \in Nat
         /\ (m + b * q) \div b = q /\ (m + b * q) % b = m
<1> DEFINE a == m + b * q
           p == a \div b
           n == a % b
<1>1. b * q \in Nat /\ b * q = q * b
  BY SMT
<1>2. a \in Nat /\ a = q * b + m
  BY <1>1
<1> HIDE DEF a
<1>3. p \in Nat /\ n \in 0..(b - 1) /\ a = b * p + n
  BY <1>2, DivMod
<1>4. b * p = p * b
  BY <1>3
<1>5. p * b + n = q * b + m
  BY <1>2, <1>3, <1>4
<1> HIDE DEF p, n
<1>6. p = q /\ n = m
  BY <1>3, <1>5, DivUnique
<1> QED BY <1>2, <1>6 DEF p, n, a

(* NumWorkGroups is the extent of the grid in each dimension.               *)
InGrid(r, wg) == \A d \in Dims : wg[d] \in Nat /\ wg[d] < NumWorkGroups(r, d)

(* The work group of every thread that is created is in the grid.           *)
LEMMA ThreadInGrid ==
  ASSUME NEW r \in Requests, Valid(r), NEW i \in Nat \ {0}, i <= NumThreads(r)
  PROVE  InGrid(r, WorkGroupOf(r, GroupIndex(i)))
<1> DEFINE n1 == NumWorkGroups(r, 1)
           n2 == NumWorkGroups(r, 2)
           n3 == NumWorkGroups(r, 3)
           N == n1 * n2 * n3
           g == GroupIndex(i)
<1>1. n1 \in Nat /\ n2 \in Nat /\ n3 \in Nat /\ ThreadSize \in Nat \ {0}
  BY ValidFacts, NodeFacts DEF Dims
<1>2. n1 * n2 * n3 * ThreadSize > 0 /\ i - 1 \in Nat /\ i - 1 < n1 * n2 * n3 * ThreadSize
  BY <1>1 DEF NumThreads
<1> HIDE DEF n1, n2, n3
<1>3. n1 > 0 /\ n2 > 0
  BY <1>1, <1>2, PositiveFactors
<1>4. n1 \in Nat \ {0} /\ n2 \in Nat \ {0} /\ n1 * n2 \in Nat \ {0}
  BY <1>1, <1>3
<1>5. N \in Nat /\ N * ThreadSize = ThreadSize * N
  BY <1>1
<1> HIDE DEF N
<1>6. g \in Nat /\ g < N
  BY <1>1, <1>2, <1>5, DivBelow DEF GroupIndex, N
<1> HIDE DEF g
<1>7. g % n1 \in 0..(n1 - 1) /\ g \div n1 \in Nat
  BY <1>4, <1>6, DivMod
<1>8. (g \div n1) % n2 \in 0..(n2 - 1)
  BY <1>4, <1>7, DivMod
<1>9. g \div (n1 * n2) \in Nat /\ g \div (n1 * n2) < n3
  <2> DEFINE m == n1 * n2
  <2>1. g < m * n3
    BY <1>6 DEF N
  <2>2. m \in Nat \ {0}
    BY <1>4
  <2> HIDE DEF m
  <2>3. g \div m \in Nat /\ g \div m < n3
    BY <1>1, <1>6, <2>1, <2>2, DivBelow
  <2> QED BY <2>3 DEF m
<1> DEFINE W == WorkGroupOf(r, g)
<1>10. W = <<g % n1, (g \div n1) % n2, g \div (n1 * n2)>>
  BY DEF WorkGroupOf, n1, n2
<1> HIDE DEF W
<1>11. W[1] = g % n1 /\ W[2] = (g \div n1) % n2 /\ W[3] = g \div (n1 * n2)
  BY <1>10
<1>12. /\ W[1] \in Nat /\ W[1] < n1 /\ W[2] \in Nat /\ W[2] < n2 /\ W[3] \in Nat /\ W[3] < n3
  BY <1>4, <1>7, <1>8, <1>9, <1>11
<1> QED BY <1>12 DEF InGrid, Dims, n1, n2, n3, W, g

(* Every work group of the grid and every chunk has a thread.               *)
LEMMA ThreadForChunk ==
  ASSUME NEW r \in Requests, Valid(r), NEW wg \in Nat \X Nat \X Nat, InGrid(r, wg),
         NEW t \in 0..(ThreadSize - 1)
  PROVE  \E i \in 1..NumThreads(r) : WorkGroupOf(r, GroupIndex(i)) = wg /\ ThreadID(i) = t
<1> DEFINE n1 == NumWorkGroups(r, 1)
           n2 == NumWorkGroups(r, 2)
           n3 == NumWorkGroups(r, 3)
           N == n1 * n2 * n3
           m == n1 * n2
           x == wg[2] + n2 * wg[3]
           g == wg[1] + n1 * x
           i == t + ThreadSize * g + 1
<1>1. n1 \in Nat /\ n2 \in Nat /\ n3 \in Nat /\ ThreadSize \in Nat \ {0}
  BY ValidFacts, NodeFacts DEF Dims
<1>2. /\ wg[1] \in Nat /\ wg[1] < n1 /\ wg[2] \in Nat /\ wg[2] < n2
      /\ wg[3] \in Nat /\ wg[3] < n3
  BY DEF InGrid, Dims
<1>3. wg = <<wg[1], wg[2], wg[3]>>
  OBVIOUS
<1> HIDE DEF n1, n2, n3
<1>4. n1 \in Nat \ {0} /\ n2 \in Nat \ {0} /\ wg[1] \in 0..(n1 - 1) /\ wg[2] \in 0..(n2 - 1)
  BY <1>1, <1>2
<1>5. x \in Nat /\ x \div n2 = wg[3] /\ x % n2 = wg[2]
  BY <1>2, <1>4, SumDivMod
<1> HIDE DEF x
<1>6. g \in Nat /\ g \div n1 = x /\ g % n1 = wg[1]
  <2> DEFINE a == wg[1]
  <2>1. a \in 0..(n1 - 1)
    BY <1>4
  <2> HIDE DEF a
  <2>2. a + n1 * x \in Nat /\ (a + n1 * x) \div n1 = x /\ (a + n1 * x) % n1 = a
    <3>1. n1 \in Nat \ {0} /\ x \in Nat
      BY <1>4, <1>5
    <3> QED BY <2>1, <3>1, SumDivMod, Zenon
  <2> QED BY <2>2 DEF a
<1> HIDE DEF g
<1>7. g \div (n1 * n2) = wg[3]
  <2>1. (g \div n1) \div n2 = g \div (n1 * n2)
    BY <1>4, <1>6, DivDiv
  <2> QED BY <1>5, <1>6, <2>1
<1>8. WorkGroupOf(r, g) = wg
  BY <1>3, <1>5, <1>6, <1>7 DEF WorkGroupOf, n1, n2
<1>9. g + 1 <= N
  <2>1. x + 1 <= n2 * n3
    <3>1. (wg[3] + 1) * n2 <= n3 * n2
      BY <1>1, <1>2, MulMono
    <3>2. (wg[3] + 1) * n2 = n2 * wg[3] + n2 /\ n3 * n2 = n2 * n3 /\ n2 * wg[3] \in Nat
      BY <1>1, <1>2
    <3> QED BY <1>1, <1>2, <3>1, <3>2 DEF x
  <2>2. n2 * n3 \in Nat
    BY <1>1
  <2> DEFINE p == n2 * n3
  <2>3. (x + 1) * n1 <= p * n1
    <3>1. x + 1 <= p /\ p \in Nat /\ x + 1 \in Nat
      BY <1>5, <2>1, <2>2
    <3> HIDE DEF p
    <3> QED BY <1>1, <3>1, MulMono
  <2>4. (x + 1) * n1 = n1 * x + n1 /\ n1 * x \in Nat /\ p * n1 = N
    BY <1>1, <1>5
  <2> DEFINE a == n1 * x
  <2>5. g = wg[1] + a
    BY DEF g
  <2>6. a \in Nat /\ a + n1 <= N /\ N \in Nat
    BY <1>1, <2>3, <2>4
  <2> HIDE DEF a, N
  <2> QED BY <1>1, <1>2, <2>5, <2>6
<1>10. N \in Nat
  BY <1>1
<1> HIDE DEF N
<1>11. ThreadSize * g \in Nat /\ i - 1 = t + ThreadSize * g /\ i \in Nat \ {0}
  BY <1>1, <1>6
<1>12. GroupIndex(i) = g /\ ThreadID(i) = t
  <2>1. (t + ThreadSize * g) \div ThreadSize = g /\ (t + ThreadSize * g) % ThreadSize = t
    BY <1>1, <1>6, SumDivMod
  <2> HIDE DEF i
  <2> QED BY <1>11, <2>1 DEF GroupIndex, ThreadID
<1>13. i <= NumThreads(r)
  <2>1. (g + 1) * ThreadSize <= N * ThreadSize
    BY <1>1, <1>6, <1>9, <1>10, MulMono
  <2>2. (g + 1) * ThreadSize = ThreadSize * g + ThreadSize /\ N * ThreadSize \in Nat
    BY <1>1, <1>6, <1>10
  <2>3. NumThreads(r) = N * ThreadSize
    BY DEF NumThreads, N, n1, n2, n3
  <2> DEFINE a == ThreadSize * g
             b == N * ThreadSize
  <2>4. a \in Nat /\ b \in Nat /\ a + ThreadSize <= b /\ i = t + a + 1
    BY <1>11, <2>1, <2>2
  <2> HIDE DEF a, b, i
  <2>5. i <= b
    BY <1>1, <2>4
  <2> QED BY <2>3, <2>5 DEF b
<1>14. i \in 1..NumThreads(r)
  <2>1. NumThreads(r) \in Int
    BY <1>1, <1>10 DEF NumThreads, N, n1, n2, n3
  <2> HIDE DEF i
  <2> QED BY <1>11, <1>13, <2>1
<1> QED BY <1>8, <1>12, <1>14

(* Every work item of a call is in the nest of one of its threads.          *)
LEMMA ItemHasThread ==
  ASSUME NEW r \in Requests, Valid(r), NEW x \in ItemsOf(r)
  PROVE  \E i \in 1..NumThreads(r) : \E l \in Nest(r, ThreadSize, ThreadID(i)) :
           x = GlobalId(r, WorkGroupOf(r, GroupIndex(i)), l)
<1> DEFINE q(d) == IF d <= r.dim THEN (x[d] - r.offs[d]) \div r.lsz[d] ELSE 0
           wg == <<q(1), q(2), q(3)>>
<1>1. LaunchType(r) /\ ThreadSize \in Nat \ {0}
  BY CallIsLaunch, NodeFacts
<1>2. PICK x1 \in Ids(r, 1), x2 \in Ids(r, 2), x3 \in Ids(r, 3) : x = <<x1, x2, x3>>
  BY DEF ItemsOf
<1>3. ASSUME NEW d \in Dims
      PROVE  q(d) \in Nat /\ q(d) < NumWorkGroups(r, d)
  <2>1. CASE d <= r.dim
    <3> DEFINE a == x[d] - r.offs[d]
               b == r.lsz[d]
               k == r.gsz[d] \div b
    <3>1. d \in 1..r.dim
      BY <1>1, <2>1 DEF LaunchType, Dims
    <3>2. b \in Nat \ {0} /\ r.gsz[d] \in Nat /\ r.offs[d] \in Nat
      BY <1>1, <3>1 DEF LaunchType
    <3>3. x[d] \in Ids(r, d)
      BY <1>2 DEF Dims
    <3>4. a \in Nat /\ a < r.gsz[d]
      BY <2>1, <3>2, <3>3 DEF Ids
    <3>5. r.gsz[d] % b = 0
      BY <3>1 DEF Valid, Divides
    <3>6. k \in Nat /\ r.gsz[d] = b * k
      <4>1. k \in Nat /\ r.gsz[d] = b * k + (r.gsz[d] % b)
        BY <3>2, DivMod
      <4> HIDE DEF k
      <4> QED BY <3>2, <3>5, <4>1
    <3> HIDE DEF a, b, k
    <3>7. a \div b \in Nat /\ a \div b < k
      BY <3>2, <3>4, <3>6, DivBelow
    <3> QED BY <2>1, <3>7 DEF a, b, k, NumWorkGroups
  <2>2. CASE ~(d <= r.dim)
    BY <2>2 DEF NumWorkGroups
  <2> QED BY <2>1, <2>2
<1>4. \A d \in 1..r.dim : d \in Dims /\ wg[d] = (x[d] - r.offs[d]) \div r.lsz[d]
  BY <1>1 DEF LaunchType, Dims
<1>5. wg \in Nat \X Nat \X Nat /\ InGrid(r, wg)
  BY <1>3 DEF InGrid, Dims
<1> HIDE DEF wg
<1>6. x \in GroupItems(r, wg)
  BY <1>4 DEF GroupItems
<1>7. PICK l \in LocalIds(r) : x = GlobalId(r, wg, l)
  BY <1>1, <1>6, GroupItemsAreLocal
<1>8. PICK t \in 0..(ThreadSize - 1) : l \in Nest(r, ThreadSize, t)
  BY <1>1, NestsCover
<1>9. PICK i \in 1..NumThreads(r) : WorkGroupOf(r, GroupIndex(i)) = wg /\ ThreadID(i) = t
  BY <1>5, ThreadForChunk
<1> QED BY <1>7, <1>8, <1>9

(* The work items a thread has run: those behind the index of its nest.     *)
Behind(T, l) == T.st \in {"done", "freed"} \/ (T.st \in {"load", "store"} /\ Before(l, T.ind))

RanBy(r, T) ==
  {GlobalId(r, T.WG, l) : l \in {m \in Nest(r, ThreadSize, T.ThreadID) : Behind(T, m)}}

Ran(i) == RanBy(CommonArgs.req, ThreadGroup[i])

(* The work items of the vector a compute unit is working on.               *)
Current(c) == Vector(ThreadGroup[running[c]])

LEMMA RanByReady ==
  ASSUME NEW r, NEW T, T.st = "ready"
  PROVE  RanBy(r, T) = {}
BY DEF RanBy, Behind

LEMMA RanByStart ==
  ASSUME NEW r \in Requests, Valid(r), NEW T \in ThreadType,
         T.ind = FirstIndex(r, ThreadSize, T.ThreadID), T.st = "load"
  PROVE  RanBy(r, T) = {}
<1>1. T.ThreadID \in Nat /\ LaunchType(r) /\ ThreadSize \in Nat \ {0}
  BY CallIsLaunch, NodeFacts DEF ThreadType
<1>2. SUFFICES ASSUME NEW l \in Nest(r, ThreadSize, T.ThreadID), Behind(T, l) PROVE FALSE
  BY DEF RanBy
<1>3. T.st = "load" /\ Before(l, FirstIndex(r, ThreadSize, T.ThreadID))
  BY <1>2 DEF Behind
<1> QED BY <1>1, <1>2, <1>3, NestStarts

LEMMA RanBySame ==
  ASSUME NEW r, NEW T, NEW e, e.WG = T.WG, e.ThreadID = T.ThreadID,
         \/ T.st \in {"load", "store"} /\ e.st \in {"load", "store"} /\ e.ind = T.ind
         \/ T.st \in {"done", "freed"} /\ e.st \in {"done", "freed"}
  PROVE  RanBy(r, e) = RanBy(r, T)
<1>1. \A l : Behind(e, l) <=> Behind(T, l)
  BY DEF Behind
<1> QED BY <1>1 DEF RanBy

(* What the store of a vector step adds: items of its vector, and no less   *)
(* than those in the nest.                                                  *)
LEMMA RanByGrows ==
  ASSUME NEW T \in ThreadType, NEW r, r = T.args.req, r \in Requests, Valid(r), T.st = "store",
         NEW e \in ThreadType, e.WG = T.WG, e.ThreadID = T.ThreadID,
         \/ /\ ~Ends(T) /\ e.st = "load"
            /\ e.ind = NextIndex(r, ThreadSize, T.ThreadID, VL, T.ind)
         \/ Ends(T) /\ e.st = "done"
  PROVE  /\ RanBy(r, T) \subseteq RanBy(r, e)
         /\ RanBy(r, e) \cap Cells \subseteq RanBy(r, T) \cup Vector(T)
         /\ \A l \in Nest(r, ThreadSize, T.ThreadID) :
              InVector(VL, T.ind, l) => GlobalId(r, T.WG, l) \in RanBy(r, e)
<1>1. /\ T.ThreadID \in Nat /\ LaunchType(r) /\ ThreadSize \in Nat \ {0}
      /\ T.ind \in [Dims -> Nat] /\ VL \in Nat \ {0}
  BY CallIsLaunch, NodeFacts, VLAssumption DEF ThreadType
<1>2. ASSUME NEW l \in Nest(r, ThreadSize, T.ThreadID)
      PROVE  /\ Behind(T, l) \/ InVector(VL, T.ind, l) => Behind(e, l)
             /\ Behind(e, l) => Behind(T, l) \/ InVector(VL, T.ind, l)
  <2>1. l \in [Dims -> Nat] /\ (Behind(T, l) <=> Before(l, T.ind))
    BY DEF Nest, Behind
  <2>2. CASE ~Ends(T) /\ e.st = "load" /\ e.ind = NextIndex(r, ThreadSize, T.ThreadID, VL, T.ind)
    <3>1. ~LoopDone(r, ThreadSize, T.ThreadID, VL, T.ind)
      BY <2>2 DEF Ends
    <3>2. Behind(e, l) <=> Before(l, NextIndex(r, ThreadSize, T.ThreadID, VL, T.ind))
      BY <2>2 DEF Behind
    <3> QED BY <1>1, <2>1, <3>1, <3>2, NestSteps, BeforeGrows
  <2>3. CASE Ends(T) /\ e.st = "done"
    <3>1. LoopDone(r, ThreadSize, T.ThreadID, VL, T.ind) /\ Behind(e, l)
      BY <2>3 DEF Ends, Behind
    <3> QED BY <1>1, <2>1, <3>1, NestDone
  <2> QED BY <2>2, <2>3
<1>3. ASSUME NEW l \in Nest(r, ThreadSize, T.ThreadID), InVector(VL, T.ind, l)
      PROVE  GlobalId(r, T.WG, l) \in VectorItems(r, VL, T.WG, T.ind)
  BY <1>1, <1>3, NestUnmasked
<1>4. RanBy(r, T) \subseteq RanBy(r, e)
  BY <1>2 DEF RanBy
<1>5. RanBy(r, e) \cap Cells \subseteq RanBy(r, T) \cup Vector(T)
  BY <1>2, <1>3 DEF RanBy, Vector
<1>6. \A l \in Nest(r, ThreadSize, T.ThreadID) :
        InVector(VL, T.ind, l) => GlobalId(r, T.WG, l) \in RanBy(r, e)
  BY <1>2 DEF RanBy
<1> QED BY <1>4, <1>5, <1>6

-----------------------------------------------------------------------------
(* What each step does to the buffer and to what has been run.  A quiet     *)
(* step leaves both alone; a register that it makes current holds the       *)
(* buffer's values.                                                         *)
SameCall == UNCHANGED CommonArgs /\ (hostPc = "idle" <=> hostPc' = "idle")

RanNow(i)     == RanBy(CommonArgs'.req, ThreadGroup'[i])
CurrentNow(c) == Vector(ThreadGroup'[running'[c]])
StoringNow(c) == running'[c] # 0 /\ ThreadGroup'[running'[c]].st = "store"

KeepsRegister(c) ==
  StoringNow(c) => Storing(c) /\ CurrentNow(c) = Current(c) /\ reg'[c] = reg[c]

Quiet ==
  /\ SameCall
  /\ UNCHANGED <<mem, expected>>
  /\ \A i \in 1..Len(ThreadGroup) : i \in 1..Len(ThreadGroup') /\ RanNow(i) = Ran(i)
  /\ \A i \in 1..Len(ThreadGroup') : i \notin 1..Len(ThreadGroup) => RanNow(i) = {}
  /\ \A c \in CUs : KeepsRegister(c) \/ \A x \in CurrentNow(c) : reg'[c][x] = mem[x]

(* A store of the register of c adds the current items to those its thread  *)
(* has run.                                                                 *)
Stores(c) ==
  /\ SameCall
  /\ UNCHANGED expected
  /\ Storing(c) /\ ~StoringNow(c)
  /\ mem' = [x \in Cells |-> IF x \in Current(c) THEN reg[c][x] + 1 ELSE mem[x]]
  /\ Len(ThreadGroup') = Len(ThreadGroup)
  /\ \A i \in 1..Len(ThreadGroup) : i # running[c] => RanNow(i) = Ran(i)
  /\ Ran(running[c]) \subseteq RanNow(running[c])
  /\ RanNow(running[c]) \cap Cells \subseteq Ran(running[c]) \cup Current(c)
  /\ \A l \in Nest(CommonArgs.req, ThreadSize, ThreadGroup[running[c]].ThreadID) :
       InVector(VL, ThreadGroup[running[c]].ind, l) =>
         GlobalId(CommonArgs.req, ThreadGroup[running[c]].WG, l) \in RanNow(running[c])
  /\ \A d \in CUs : d # c => KeepsRegister(d)

LEMMA KeepsRegisterBy ==
  ASSUME NEW c \in CUs, running'[c] = running[c], reg'[c] = reg[c],
         running[c] # 0 => ThreadGroup'[running[c]] = ThreadGroup[running[c]]
  PROVE  KeepsRegister(c)
BY DEF KeepsRegister, Storing, Current, StoringNow, CurrentNow

(* One thread changes, by what it has run or not.                           *)
LEMMA OneThread ==
  ASSUME IInv, NEW i \in 1..Len(ThreadGroup), NEW e \in ThreadType,
         ThreadGroup' = [ThreadGroup EXCEPT ![i] = e], UNCHANGED CommonArgs
  PROVE  /\ Len(ThreadGroup') = Len(ThreadGroup)
         /\ ThreadGroup'[i] = e /\ RanNow(i) = RanBy(CommonArgs.req, e)
         /\ \A j \in 1..Len(ThreadGroup) :
              j # i => ThreadGroup'[j] = ThreadGroup[j] /\ RanNow(j) = Ran(j)
<1>1. /\ Len(ThreadGroup') = Len(ThreadGroup)
      /\ \A j \in 1..Len(ThreadGroup) : ThreadGroup'[j] = IF j = i THEN e ELSE ThreadGroup[j]
  BY ThreadChange
<1> QED BY <1>1 DEF Ran, RanNow

LEMMA CreateThreadQuiet ==
  ASSUME IInv, CreateThread
  PROVE  Quiet
<1> DEFINE n == Len(ThreadGroup)
           T == NewThread(n + 1)
<1>1. n \in Nat /\ ThreadGroup \in Seq(ThreadType) /\ ThreadGroup' = Append(ThreadGroup, T)
      /\ UNCHANGED <<hostPc, CommonArgs, mem, expected, running, reg>>
  BY LenProperties DEF CreateThread, IInv, TypeOK
<1>2. Len(ThreadGroup') = n + 1 /\ \A i \in 1..n : ThreadGroup'[i] = ThreadGroup[i]
      /\ ThreadGroup'[n + 1] = T
  <2> HIDE DEF T
  <2> QED BY <1>1, AppendProperties
<1>3. \A i \in 1..n : i \in 1..Len(ThreadGroup') /\ RanNow(i) = Ran(i)
  BY <1>1, <1>2 DEF Ran, RanNow
<1>4. RanNow(n + 1) = {}
  <2>1. T.st = "ready"
    BY DEF NewThread
  <2> HIDE DEF T
  <2> QED BY <1>1, <1>2, <2>1, RanByReady DEF RanNow
<1>5. \A c \in CUs : KeepsRegister(c)
  <2> TAKE c \in CUs
  <2>1. running[c] # 0 => running[c] \in 1..n
    BY RunningThread
  <2> QED BY <1>1, <1>2, <2>1, KeepsRegisterBy
<1>6. \A i \in 1..Len(ThreadGroup') : i \notin 1..n => i = n + 1
  BY <1>1, <1>2
<1> QED BY <1>1, <1>3, <1>4, <1>5, <1>6 DEF Quiet, SameCall

LEMMA FreeThreadQuiet ==
  ASSUME IInv, FreeThread
  PROVE  Quiet
<1> DEFINE i == joined + 1
           e == [ThreadGroup[i] EXCEPT !.st = "freed"]
<1>1. ThreadGroup \in Seq(ThreadType) /\ Len(ThreadGroup) \in Nat /\ joined \in Nat
  BY LenProperties DEF IInv, TypeOK
<1>2. i \in 1..Len(ThreadGroup) /\ ThreadGroup[i].st = "done"
  BY <1>1 DEF FreeThread
<1>3. ThreadGroup[i] \in ThreadType
  BY <1>1, <1>2, ElementOfSeq
<1>4. /\ e \in ThreadType /\ e.st = "freed"
      /\ e.WG = ThreadGroup[i].WG /\ e.ThreadID = ThreadGroup[i].ThreadID
  BY <1>3 DEF ThreadType
<1>5. /\ ThreadGroup' = [ThreadGroup EXCEPT ![i] = e]
      /\ hostPc # "idle" /\ hostPc' # "idle"
      /\ UNCHANGED <<CommonArgs, running, reg, mem, expected>>
  BY DEF FreeThread
<1> HIDE DEF e, i
<1>6. /\ Len(ThreadGroup') = Len(ThreadGroup) /\ RanNow(i) = RanBy(CommonArgs.req, e)
      /\ \A j \in 1..Len(ThreadGroup) :
           j # i => ThreadGroup'[j] = ThreadGroup[j] /\ RanNow(j) = Ran(j)
  BY <1>2, <1>4, <1>5, OneThread
<1>7. RanNow(i) = Ran(i)
  BY <1>2, <1>4, <1>6, RanBySame DEF Ran, RanNow
<1>8. \A c \in CUs : KeepsRegister(c)
  <2> TAKE c \in CUs
  <2>1. running[c] # 0 => running[c] \in 1..Len(ThreadGroup) /\ running[c] # i
    BY <1>2, RunningThread
  <2> QED BY <1>5, <1>6, <2>1, KeepsRegisterBy
<1> QED BY <1>5, <1>6, <1>7, <1>8 DEF Quiet, SameCall

LEMMA DispatchQuiet ==
  ASSUME IInv, NEW c \in CUs, Dispatch(c)
  PROVE  Quiet
<1> DEFINE i == Head(Pool[c])
           r == CommonArgs.req
           e == [ThreadGroup[i] EXCEPT !.st = "load", !.args = CommonArgs,
                                       !.ind = FirstIndex(r, ThreadSize, ThreadGroup[i].ThreadID)]
<1>1. i \in 1..Len(ThreadGroup) /\ ThreadGroup[i].st = "ready"
  <2>1. Pool[c] \in Seq(Nat) /\ Pool[c] # <<>>
    BY DEF IInv, TypeOK, Dispatch
  <2>2. 1 \in 1..Len(Pool[c]) /\ i = Pool[c][1]
    BY <2>1, HeadTailProperties, EmptySeq
  <2> QED BY <2>2 DEF IInv, PoolInv
<1>2. /\ r \in Requests /\ Valid(r) /\ hostPc # "idle"
      /\ ThreadGroup[i] \in ThreadType
      /\ CommonArgs \in [launch : 1..MaxLaunches, req : Requests]
  BY <1>1, ThreadsWithinCall
<1>3. FirstIndex(r, ThreadSize, ThreadGroup[i].ThreadID) \in [Dims -> Nat]
  <2>1. \A d \in 1..r.dim : r.lsz[d] \in Nat
    BY <1>2, ValidFacts
  <2>2. ThreadGroup[i].ThreadID \in Nat
    BY <1>2 DEF ThreadType
  <2> QED BY <2>1, <2>2, NodeFacts, FirstIndexType
<1>4. /\ e \in ThreadType /\ e.st = "load" /\ e.ThreadID = ThreadGroup[i].ThreadID
      /\ e.ind = FirstIndex(r, ThreadSize, ThreadGroup[i].ThreadID)
  BY <1>2, <1>3 DEF ThreadType
<1>5. /\ ThreadGroup' = [ThreadGroup EXCEPT ![i] = e]
      /\ running' = [running EXCEPT ![c] = i]
      /\ UNCHANGED <<hostPc, CommonArgs, reg, mem, expected>>
  BY DEF Dispatch, hostVars
<1> HIDE DEF e, i, r
<1>6. /\ Len(ThreadGroup') = Len(ThreadGroup) /\ ThreadGroup'[i] = e /\ RanNow(i) = RanBy(r, e)
      /\ \A j \in 1..Len(ThreadGroup) :
           j # i => ThreadGroup'[j] = ThreadGroup[j] /\ RanNow(j) = Ran(j)
  BY <1>1, <1>4, <1>5, OneThread DEF r
<1>7. RanNow(i) = Ran(i)
  <2>1. RanBy(r, e) = {}
    BY <1>2, <1>4, RanByStart
  <2>2. RanBy(r, ThreadGroup[i]) = {}
    BY <1>1, RanByReady
  <2> QED BY <1>6, <2>1, <2>2 DEF Ran, RanNow, r
<1>8. \A d \in CUs : KeepsRegister(d)
  <2> TAKE d \in CUs
  <2>1. running \in [CUs -> Nat]
    BY DEF IInv, TypeOK
  <2>2. CASE d = c
    BY <1>4, <1>5, <1>6, <2>1, <2>2 DEF KeepsRegister, StoringNow
  <2>3. CASE d # c
    <3>1. running[d] # 0 => running[d] \in 1..Len(ThreadGroup) /\ running[d] # i
      BY <1>1, RunningThread
    <3> QED BY <1>5, <1>6, <2>1, <2>3, <3>1, KeepsRegisterBy
  <2> QED BY <2>2, <2>3
<1> QED BY <1>5, <1>6, <1>7, <1>8 DEF Quiet, SameCall

(* Two compute units run different threads.                                 *)
LEMMA RunningApart ==
  ASSUME IInv, NEW c \in CUs, NEW d \in CUs, c # d, running[c] # 0
  PROVE  running[c] # running[d]
BY RunningThread

LEMMA LoadStepQuiet ==
  ASSUME IInv, NEW c \in CUs, LoadStep(c)
  PROVE  Quiet
<1> DEFINE i == running[c]
           T == ThreadGroup[i]
           e == [T EXCEPT !.st = "store"]
<1>1. i # 0 /\ i \in 1..Len(ThreadGroup) /\ T \in ThreadType /\ T.st = "load"
  BY RunningThread DEF LoadStep
<1>2. /\ e \in ThreadType /\ e.st = "store" /\ e.WG = T.WG /\ e.ThreadID = T.ThreadID
      /\ e.args = T.args /\ e.ind = T.ind
  BY <1>1 DEF ThreadType
<1>3. /\ ThreadGroup' = [ThreadGroup EXCEPT ![i] = e]
      /\ reg' = [reg EXCEPT ![c] = [x \in Cells |-> IF x \in Vector(T) THEN mem[x] ELSE 0]]
      /\ UNCHANGED <<hostPc, CommonArgs, running, mem, expected>>
  BY DEF LoadStep, hostVars
<1> HIDE DEF e, T, i
<1>4. /\ Len(ThreadGroup') = Len(ThreadGroup) /\ ThreadGroup'[i] = e
      /\ RanNow(i) = RanBy(CommonArgs.req, e)
      /\ \A j \in 1..Len(ThreadGroup) :
           j # i => ThreadGroup'[j] = ThreadGroup[j] /\ RanNow(j) = Ran(j)
  BY <1>1, <1>2, <1>3, OneThread
<1>5. RanNow(i) = Ran(i)
  <2>1. RanBy(CommonArgs.req, e) = RanBy(CommonArgs.req, T)
    BY <1>1, <1>2, RanBySame
  <2> QED BY <1>4, <2>1 DEF Ran, RanNow, T
<1>6. \A x \in CurrentNow(c) : reg'[c][x] = mem[x]
  <2>1. CurrentNow(c) = Vector(T)
    BY <1>2, <1>3, <1>4 DEF CurrentNow, Vector, i
  <2>2. Vector(T) \subseteq Cells
    BY DEF Vector
  <2>3. reg \in [CUs -> [Cells -> Nat]]
    BY DEF IInv, TypeOK
  <2> QED BY <1>3, <2>1, <2>2, <2>3
<1>7. \A d \in CUs : d # c => KeepsRegister(d)
  <2> TAKE d \in CUs
  <2>1. SUFFICES ASSUME d # c PROVE KeepsRegister(d)
    OBVIOUS
  <2>2. running[d] # 0 => running[d] \in 1..Len(ThreadGroup) /\ running[d] # i
    BY <1>1, <2>1, RunningThread, RunningApart DEF i
  <2>3. reg'[d] = reg[d]
    BY <1>3, <2>1 DEF IInv, TypeOK
  <2> QED BY <1>3, <1>4, <2>2, <2>3, KeepsRegisterBy
<1> QED BY <1>3, <1>4, <1>5, <1>6, <1>7 DEF Quiet, SameCall

LEMMA StoreStores ==
  ASSUME IInv, NEW c \in CUs, StoreStep(c) \/ StoreExit(c)
  PROVE  Stores(c)
<1> DEFINE i == running[c]
           T == ThreadGroup[i]
           r == CommonArgs.req
           e == IF Ends(T) THEN [T EXCEPT !.st = "done"]
                ELSE [T EXCEPT !.st = "load",
                               !.ind = NextIndex(r, ThreadSize, T.ThreadID, VL, T.ind)]
<1>1. /\ i # 0 /\ i \in 1..Len(ThreadGroup) /\ T \in ThreadType /\ T.st = "store"
      /\ T.args = CommonArgs
  BY RunningThread DEF StoreStep, StoreExit
<1>2. r \in Requests /\ Valid(r) /\ r = T.args.req
  BY <1>1, ThreadsWithinCall
<1>3. ~Ends(T) => NextIndex(r, ThreadSize, T.ThreadID, VL, T.ind) \in [Dims -> Nat]
  <2>1. \A d \in 1..r.dim : r.lsz[d] \in Nat
    BY <1>2, ValidFacts
  <2>2. ~Ends(T) => ~LoopDone(r, ThreadSize, T.ThreadID, VL, T.ind)
    BY <1>2 DEF Ends
  <2>3. T.ThreadID \in Nat /\ T.ind \in [Dims -> Nat]
    BY <1>1 DEF ThreadType
  <2> QED BY <2>1, <2>2, <2>3, NodeFacts, VLAssumption, NextIndexType
<1>4. /\ e \in ThreadType /\ e.WG = T.WG /\ e.ThreadID = T.ThreadID
      /\ \/ /\ ~Ends(T) /\ e.st = "load"
            /\ e.ind = NextIndex(r, ThreadSize, T.ThreadID, VL, T.ind)
         \/ Ends(T) /\ e.st = "done"
  BY <1>1, <1>3 DEF ThreadType
<1>5. /\ ThreadGroup' = [ThreadGroup EXCEPT ![i] = e]
      /\ Store(c)
      /\ UNCHANGED <<hostPc, CommonArgs, expected>>
  BY <1>1 DEF StoreStep, StoreExit, hostVars
<1>6. running' = running \/ running' = [running EXCEPT ![c] = 0]
  BY DEF StoreStep, StoreExit
<1>7. running \in [CUs -> Nat] /\ reg \in [CUs -> [Cells -> Nat]]
  BY DEF IInv, TypeOK
<1> HIDE DEF e, T, i, r
<1>8. /\ Len(ThreadGroup') = Len(ThreadGroup) /\ ThreadGroup'[i] = e /\ RanNow(i) = RanBy(r, e)
      /\ \A j \in 1..Len(ThreadGroup) :
           j # i => ThreadGroup'[j] = ThreadGroup[j] /\ RanNow(j) = Ran(j)
  BY <1>1, <1>4, <1>5, OneThread DEF r
<1>9. /\ RanBy(r, T) \subseteq RanBy(r, e)
      /\ RanBy(r, e) \cap Cells \subseteq RanBy(r, T) \cup Vector(T)
      /\ \A l \in Nest(r, ThreadSize, T.ThreadID) :
           InVector(VL, T.ind, l) => GlobalId(r, T.WG, l) \in RanBy(r, e)
  BY <1>1, <1>2, <1>4, RanByGrows
<1>10. Storing(c) /\ Current(c) = Vector(T) /\ Ran(i) = RanBy(r, T)
  BY <1>1 DEF Storing, Current, Ran, T, i, r
<1>11. ~StoringNow(c)
  BY <1>4, <1>6, <1>7, <1>8 DEF StoringNow, i
<1>12. mem' = [x \in Cells |-> IF x \in Current(c) THEN reg[c][x] + 1 ELSE mem[x]]
       /\ \A d \in CUs : d # c => reg'[d] = reg[d]
  BY <1>5, <1>7, <1>10 DEF Store, T, i
<1>13. \A d \in CUs : d # c => KeepsRegister(d)
  <2> TAKE d \in CUs
  <2>1. SUFFICES ASSUME d # c PROVE KeepsRegister(d)
    OBVIOUS
  <2>2. running[d] # 0 => running[d] \in 1..Len(ThreadGroup) /\ running[d] # i
    BY <1>1, <2>1, RunningThread, RunningApart DEF i
  <2>3. running'[d] = running[d] /\ reg'[d] = reg[d]
    BY <1>6, <1>7, <1>12, <2>1
  <2> QED BY <1>8, <2>2, <2>3, KeepsRegisterBy
<1>14. SameCall
  BY <1>5 DEF SameCall
<1> QED
  BY <1>5, <1>8, <1>9, <1>10, <1>11, <1>12, <1>13, <1>14 DEF Stores, i, T, r

LEMMA OthersQuiet ==
  ASSUME UNCHANGED <<CommonArgs, ThreadGroup, running, reg, mem, expected>>,
         hostPc = "idle" <=> hostPc' = "idle"
  PROVE  Quiet
<1>1. \A i \in 1..Len(ThreadGroup) : i \in 1..Len(ThreadGroup') /\ RanNow(i) = Ran(i)
  BY DEF Ran, RanNow
<1>2. \A c \in CUs : KeepsRegister(c)
  BY KeepsRegisterBy
<1> QED BY <1>1, <1>2 DEF Quiet, SameCall

(* Every step is quiet, a store, or the beginning or end of a call.         *)
LEMMA StepEffects ==
  ASSUME IInv, [Next]_vars
  PROVE  \/ Quiet
         \/ \E c \in CUs : Stores(c)
         \/ \E r \in Requests : Launch(r)
         \/ Return
<1>1. CASE UNCHANGED vars
  BY <1>1, OthersQuiet DEF vars
<1>2. ASSUME NEW r \in Requests, Reject(r) PROVE Quiet
  BY <1>2, OthersQuiet DEF Reject
<1>3. CASE HostStep
  <2>1. CASE StartFinish
    BY <2>1, OthersQuiet DEF StartFinish
  <2>2. CASE Suspend
    BY <2>2, OthersQuiet DEF Suspend
  <2> QED BY <1>3, <2>1, <2>2, CreateThreadQuiet, FreeThreadQuiet DEF HostStep
<1>4. ASSUME NEW c \in CUs, CUStep(c) PROVE Quiet \/ Stores(c)
  BY <1>4, DispatchQuiet, LoadStepQuiet, StoreStores DEF CUStep
<1> QED BY <1>1, <1>2, <1>3, <1>4 DEF Next

-----------------------------------------------------------------------------
(* Every item of a launch is applied.  EveryItemApplied speaks of the end   *)
(* of a call; before it, a launch may still owe its items one application,  *)
(* but not those a thread has run, and a register about to be stored is not *)
(* staler than that.                                                        *)

CallInv == hostPc \in {"finish", "suspended"} => Len(ThreadGroup) = NumThreads(CommonArgs.req)

Asked(x) == hostPc # "idle" /\ x \in ItemsOf(CommonArgs.req)

Owed(x) == IF Asked(x) THEN 1 ELSE 0

AtMostOwed == \A x \in Cells : expected[x] <= mem[x] + Owed(x)

RanApplied ==
  \A i \in 1..Len(ThreadGroup) : \A x \in Cells : x \in Ran(i) => expected[x] <= mem[x]

RegistersFresh ==
  \A c \in CUs : Storing(c) => \A x \in Current(c) : expected[x] <= reg[c][x] + Owed(x)

AppliedInv == AtMostOwed /\ RanApplied /\ RegistersFresh

(* A step that changes threads in place keeps their number.                 *)
LEMMA SameThreads ==
  ASSUME IInv, IInv', DOMAIN ThreadGroup' = DOMAIN ThreadGroup
  PROVE  Len(ThreadGroup') = Len(ThreadGroup)
<1>1. ThreadGroup \in Seq(ThreadType)
  BY DEF IInv, TypeOK
<1>2. (ThreadGroup \in Seq(ThreadType))'
  BY DEF IInv, TypeOK
<1> DEFINE n == Len(ThreadGroup)
           m == Len(ThreadGroup')
<1>3. n \in Nat /\ m \in Nat /\ 1..n = 1..m
  BY <1>1, <1>2, LenProperties
<1> HIDE DEF n, m
<1>4. m = n
  BY <1>3
<1> QED BY <1>4 DEF m, n

LEMMA CallStep ==
  ASSUME IInv, CallInv, [Next]_vars
  PROVE  CallInv'
<1>0. IInv'
  BY NextInv
<1>1. ASSUME UNCHANGED <<hostPc, CommonArgs>>, Len(ThreadGroup') = Len(ThreadGroup) PROVE CallInv'
  BY <1>1 DEF CallInv
<1>2. CASE UNCHANGED vars
  BY <1>2 DEF vars, CallInv
<1>3. ASSUME NEW r \in Requests, Reject(r) \/ Launch(r) PROVE CallInv'
  BY <1>3 DEF Reject, Launch, CallInv
<1>4. CASE HostStep
  <2>1. CASE CreateThread
    BY <2>1 DEF CreateThread, CallInv
  <2>2. CASE StartFinish
    BY <2>2 DEF StartFinish, CallInv
  <2>3. CASE Suspend
    BY <2>3 DEF Suspend, CallInv
  <2>4. CASE FreeThread
    <3>0. DOMAIN ThreadGroup' = DOMAIN ThreadGroup
      BY <2>4 DEF FreeThread
    <3>1. Len(ThreadGroup') = Len(ThreadGroup)
      BY <1>0, <3>0, SameThreads
    <3> QED BY <2>4, <3>1 DEF FreeThread, CallInv
  <2>5. CASE Return
    BY <2>5 DEF Return, CallInv
  <2> QED BY <1>4, <2>1, <2>2, <2>3, <2>4, <2>5 DEF HostStep
<1>5. ASSUME NEW c \in CUs, CUStep(c) PROVE CallInv'
  <2>1. UNCHANGED <<hostPc, CommonArgs>>
    BY <1>5 DEF CUStep, Dispatch, LoadStep, StoreStep, StoreExit, hostVars
  <2>0. DOMAIN ThreadGroup' = DOMAIN ThreadGroup
    BY <1>5 DEF CUStep, Dispatch, LoadStep, StoreStep, StoreExit
  <2>2. Len(ThreadGroup') = Len(ThreadGroup)
    BY <1>0, <2>0, SameThreads
  <2> QED BY <1>1, <2>1, <2>2
<1> QED BY <1>2, <1>3, <1>4, <1>5 DEF Next

LEMMA StoringCurrent ==
  ASSUME NEW c \in CUs
  PROVE  /\ Storing(c)' <=> StoringNow(c)
         /\ Current(c)' = CurrentNow(c)
         /\ Current(c) \subseteq Cells
BY DEF Storing, StoringNow, Current, CurrentNow, Vector

LEMMA QuietApplied ==
  ASSUME IInv, AppliedInv, Quiet
  PROVE  AppliedInv'
<1>1. UNCHANGED <<CommonArgs, mem, expected>> /\ \A x : Owed(x)' = Owed(x)
  BY DEF Quiet, SameCall, Owed, Asked
<1>2. AtMostOwed'
  BY <1>1 DEF AppliedInv, AtMostOwed
<1>3. \A i \in 1..Len(ThreadGroup') : \A x \in Cells : x \in RanNow(i) => expected[x] <= mem[x]
  BY DEF AppliedInv, RanApplied, Quiet
<1>4. RanApplied'
  BY <1>1, <1>3 DEF RanApplied, RanNow, Ran
<1>5. ASSUME NEW c \in CUs, StoringNow(c), NEW x \in CurrentNow(c)
      PROVE  expected[x] <= reg'[c][x] + Owed(x)
  <2>1. x \in Cells
    BY <1>5 DEF CurrentNow, Vector
  <2>2. CASE KeepsRegister(c)
    BY <1>5, <2>2 DEF KeepsRegister, AppliedInv, RegistersFresh
  <2>3. CASE \A y \in CurrentNow(c) : reg'[c][y] = mem[y]
    BY <1>5, <2>1, <2>3 DEF AppliedInv, AtMostOwed
  <2> QED BY <1>5, <2>2, <2>3 DEF Quiet
<1>6. RegistersFresh'
  BY <1>1, <1>5, StoringCurrent DEF RegistersFresh
<1> QED BY <1>2, <1>4, <1>6 DEF AppliedInv

LEMMA StoresApplied ==
  ASSUME IInv, AppliedInv, NEW c \in CUs, Stores(c)
  PROVE  AppliedInv'
<1>1. UNCHANGED <<CommonArgs, expected>> /\ \A x : Owed(x)' = Owed(x) /\ Owed(x) \in {0, 1}
  BY DEF Stores, SameCall, Owed, Asked
<1>2. /\ mem \in [Cells -> Nat] /\ expected \in [Cells -> Nat] /\ reg \in [CUs -> [Cells -> Nat]]
  BY DEF IInv, TypeOK
<1>3. \A x \in Cells : mem'[x] = IF x \in Current(c) THEN reg[c][x] + 1 ELSE mem[x]
  BY DEF Stores
<1>4. \A x \in Current(c) : x \in Cells /\ expected[x] <= mem'[x]
  <2> TAKE x \in Current(c)
  <2>1. x \in Cells /\ expected[x] <= reg[c][x] + Owed(x)
    BY StoringCurrent DEF AppliedInv, RegistersFresh, Stores
  <2> QED BY <1>1, <1>2, <1>3, <2>1
<1>5. AtMostOwed'
  <2>1. ASSUME NEW x \in Cells PROVE expected[x] <= mem'[x] + Owed(x)
    <3>1. CASE x \in Current(c)
      <4>1. mem'[x] \in Nat
        BY <1>2, <1>3
      <4> QED BY <1>1, <1>2, <1>4, <3>1, <4>1
    <3>2. CASE x \notin Current(c)
      BY <1>3, <3>2 DEF AppliedInv, AtMostOwed
    <3> QED BY <3>1, <3>2
  <2> QED BY <1>1, <2>1 DEF AtMostOwed
<1>6. \A i \in 1..Len(ThreadGroup') : \A x \in Cells : x \in RanNow(i) => expected[x] <= mem'[x]
  <2> TAKE i \in 1..Len(ThreadGroup')
  <2> TAKE x \in Cells
  <2>1. i \in 1..Len(ThreadGroup)
    BY DEF Stores
  <2>2. x \in RanNow(i) => x \in Ran(i) \/ x \in Current(c)
    BY <2>1 DEF Stores
  <2>3. CASE x \notin Current(c)
    BY <1>3, <2>1, <2>2, <2>3 DEF AppliedInv, RanApplied
  <2> QED BY <1>4, <2>3
<1>7. RanApplied'
  BY <1>1, <1>6 DEF RanApplied, RanNow, Ran
<1>8. ASSUME NEW d \in CUs, StoringNow(d), NEW x \in CurrentNow(d)
      PROVE  expected[x] <= reg'[d][x] + Owed(x)
  <2>1. d # c /\ KeepsRegister(d)
    BY <1>8 DEF Stores
  <2> QED BY <1>8, <2>1 DEF KeepsRegister, AppliedInv, RegistersFresh
<1>9. RegistersFresh'
  BY <1>1, <1>8, StoringCurrent DEF RegistersFresh
<1> QED BY <1>5, <1>7, <1>9 DEF AppliedInv

(* Nothing runs between two calls.                                          *)
LEMMA NobodyRuns ==
  ASSUME IInv, hostPc = "idle"
  PROVE  Len(ThreadGroup) = 0 /\ \A c \in CUs : running[c] = 0
BY EmptySeq DEF IInv, HostInv, RunInv

LEMMA LaunchApplied ==
  ASSUME IInv, AppliedInv, NEW r \in Requests, Launch(r)
  PROVE  AppliedInv'
<1>1. Len(ThreadGroup') = 0 /\ \A c \in CUs : running'[c] = 0
  BY NobodyRuns DEF Launch
<1>2. ASSUME NEW x \in Cells PROVE expected'[x] <= mem'[x] + Owed(x)'
  <2>1. expected[x] \in Nat /\ mem[x] \in Nat
    BY DEF IInv, TypeOK
  <2>2. expected[x] <= mem[x]
    BY <2>1 DEF AppliedInv, AtMostOwed, Owed, Asked, Launch
  <2>3. expected'[x] = expected[x] + Owed(x)' /\ Owed(x)' \in {0, 1} /\ mem' = mem
    BY DEF Owed, Asked, Launch
  <2> HIDE DEF Launch
  <2> QED BY <2>1, <2>2, <2>3
<1>3. AtMostOwed'
  BY <1>2 DEF AtMostOwed
<1>4. RanApplied' /\ RegistersFresh'
  BY <1>1 DEF RanApplied, RegistersFresh, Storing
<1> QED BY <1>3, <1>4 DEF AppliedInv

(* When the call returns, every item it was asked for has been run.         *)
LEMMA AllRan ==
  ASSUME IInv, CallInv, Return, NEW x, Asked(x)
  PROVE  \E i \in 1..Len(ThreadGroup) : x \in Ran(i)
<1> DEFINE r == CommonArgs.req
<1>1. r \in Requests /\ Valid(r) /\ x \in ItemsOf(r) /\ hostPc = "finish"
  BY DEF IInv, HostInv, Asked, Return
<1>2. Len(ThreadGroup) = NumThreads(r) /\ joined = Len(ThreadGroup)
  BY <1>1 DEF CallInv, Return
<1>3. PICK i \in 1..NumThreads(r) :
        \E l \in Nest(r, ThreadSize, ThreadID(i)) : x = GlobalId(r, WorkGroupOf(r, GroupIndex(i)), l)
  BY <1>1, ItemHasThread
<1>4. i \in 1..Len(ThreadGroup) /\ i <= joined
  BY <1>2, <1>3
<1>5. /\ ThreadGroup[i].st = "freed" /\ ThreadGroup[i].ThreadID = ThreadID(i)
      /\ ThreadGroup[i].WG = WorkGroupOf(r, GroupIndex(i))
  BY <1>4 DEF IInv, GroupInv
<1>6. x \in Ran(i)
  BY <1>3, <1>5 DEF Ran, RanBy, Behind
<1> QED BY <1>4, <1>6

LEMMA ReturnApplied ==
  ASSUME IInv, CallInv, AppliedInv, Return
  PROVE  AppliedInv'
<1>1. Len(ThreadGroup') = 0 /\ ThreadGroup' = <<>> /\ hostPc' = "idle"
      /\ UNCHANGED <<running, mem, expected>>
  BY EmptySeq DEF Return
<1>2. \A c \in CUs : running'[c] = 0
  BY <1>1, ReturnInv, NobodyRuns DEF IInv, RunInv
<1>3. ASSUME NEW x \in Cells PROVE expected[x] <= mem[x]
  <2>1. CASE Asked(x)
    BY <2>1, AllRan DEF AppliedInv, RanApplied
  <2>2. CASE ~Asked(x)
    <3>1. expected[x] <= mem[x] + 0
      BY <2>2 DEF AppliedInv, AtMostOwed, Owed
    <3> QED BY <3>1 DEF IInv, TypeOK
  <2> QED BY <2>1, <2>2
<1>4. AtMostOwed'
  <2>1. ASSUME NEW x \in Cells PROVE expected'[x] <= mem'[x] + Owed(x)'
    <3>1. Owed(x)' = 0 /\ expected'[x] = expected[x] /\ mem'[x] = mem[x]
      BY <1>1 DEF Owed, Asked
    <3> QED BY <1>3, <3>1 DEF IInv, TypeOK
  <2> QED BY <2>1 DEF AtMostOwed
<1>5. RanApplied' /\ RegistersFresh'
  BY <1>1, <1>2 DEF RanApplied, RegistersFresh, Storing
<1> QED BY <1>4, <1>5 DEF AppliedInv

LEMMA AppliedStep ==
  ASSUME IInv, CallInv, AppliedInv, [Next]_vars
  PROVE  AppliedInv'
BY StepEffects, QuietApplied, StoresApplied, LaunchApplied, ReturnApplied

LEMMA InitApplied == Init => CallInv /\ AppliedInv
<1> SUFFICES ASSUME Init PROVE CallInv /\ AppliedInv
  OBVIOUS
<1>1. Len(ThreadGroup) = 0 /\ \A c \in CUs : running[c] = 0
  BY EmptySeq DEF Init
<1>2. AtMostOwed
  BY DEF Init, AtMostOwed, Owed, Asked, Zeros
<1>3. RanApplied /\ RegistersFresh
  BY <1>1 DEF RanApplied, RegistersFresh, Storing
<1>4. CallInv
  BY DEF Init, CallInv
<1> QED BY <1>2, <1>3, <1>4 DEF AppliedInv

(* Whatever the sizes, the cores and the vector length, and although a      *)
(* vector step may work on items of another thread's chunk: when the call   *)
(* returns no work item of any launch so far is missing from the buffer.    *)
THEOREM EveryItemAppliedHolds == Spec => []EveryItemApplied
<1>1. Init => IInv /\ CallInv /\ AppliedInv
  BY InitInv, InitApplied
<1>2. IInv /\ CallInv /\ AppliedInv /\ [Next]_vars => (IInv /\ CallInv /\ AppliedInv)'
  BY NextInv, CallStep, AppliedStep
<1>3. IInv /\ CallInv /\ AppliedInv => EveryItemApplied
  <2> SUFFICES ASSUME IInv, AppliedInv, hostPc = "idle", NEW x \in Cells
               PROVE  mem[x] >= expected[x]
    BY DEF EveryItemApplied
  <2>1. expected[x] <= mem[x] + 0
    BY DEF AppliedInv, AtMostOwed, Owed, Asked
  <2> QED BY <2>1 DEF IInv, TypeOK
<1> QED BY <1>1, <1>2, <1>3, PTL DEF Spec

-----------------------------------------------------------------------------
(* The launches whose chunks, loops and masks fit together.  For them a     *)
(* vector holds items of its own thread's chunk only, and the chunks are    *)
(* apart, so that each item is applied exactly once.                        *)

AllAligned == \A r \in Requests : Valid(r) => Aligned(r, ThreadSize, VL)

(* The work items of thread i.                                              *)
Own(i) ==
  LET T == ThreadGroup[i]
  IN  {GlobalId(CommonArgs.req, T.WG, l) : l \in Nest(CommonArgs.req, ThreadSize, T.ThreadID)}

LEMMA ThreadFacts ==
  ASSUME IInv, NEW i \in 1..Len(ThreadGroup)
  PROVE  /\ i \in Nat \ {0} /\ i <= NumThreads(CommonArgs.req)
         /\ CommonArgs.req \in Requests /\ Valid(CommonArgs.req)
         /\ LaunchType(CommonArgs.req)
         /\ ThreadGroup[i] \in ThreadType
         /\ ThreadGroup[i].ThreadID = ThreadID(i) /\ ThreadID(i) \in 0..(ThreadSize - 1)
         /\ ThreadGroup[i].WG = WorkGroupOf(CommonArgs.req, GroupIndex(i))
         /\ GroupType(CommonArgs.req, ThreadGroup[i].WG)
         /\ \A d \in Dims : d > CommonArgs.req.dim => ThreadGroup[i].WG[d] = 0
<1> DEFINE r == CommonArgs.req
           T == ThreadGroup[i]
<1>1. i \in Nat \ {0} /\ Len(ThreadGroup) \in Nat
  BY LenProperties DEF IInv, TypeOK
<1>2. r \in Requests /\ Valid(r) /\ T \in ThreadType /\ LaunchType(r)
  BY ThreadsWithinCall, CallIsLaunch
<1>3. i <= NumThreads(r) /\ T.ThreadID = ThreadID(i) /\ T.WG = WorkGroupOf(r, GroupIndex(i))
  BY DEF IInv, GroupInv
<1>4. ThreadID(i) \in 0..(ThreadSize - 1)
  BY <1>1, CoreNumInRange
<1>5. InGrid(r, T.WG)
  BY <1>1, <1>2, <1>3, ThreadInGrid
<1>6. r.dim \in Dims
  BY <1>2 DEF LaunchType
<1>7. GroupType(r, T.WG)
  BY <1>5, <1>6 DEF GroupType, InGrid, NumWorkGroups, Dims
<1>8. ASSUME NEW d \in Dims, d > r.dim PROVE T.WG[d] = 0
  <2>1. ~(d <= r.dim)
    BY <1>6, <1>8 DEF Dims
  <2>2. NumWorkGroups(r, d) = 1
    BY <2>1 DEF NumWorkGroups
  <2>3. T.WG[d] \in Nat /\ T.WG[d] < 1
    BY <1>5, <2>2 DEF InGrid
  <2> QED BY <2>3
<1> QED BY <1>1, <1>2, <1>3, <1>4, <1>7, <1>8

(* A work group and a chunk have one thread.                                *)
LEMMA OneThreadPerChunk ==
  ASSUME NEW r \in Requests, Valid(r), NEW i \in Nat \ {0}, NEW j \in Nat \ {0},
         i <= NumThreads(r), WorkGroupOf(r, GroupIndex(i)) = WorkGroupOf(r, GroupIndex(j)),
         ThreadID(i) = ThreadID(j)
  PROVE  i = j
<1> DEFINE g == GroupIndex(i)
           h == GroupIndex(j)
<1>1. NumThreads(r) > 0
  <2>1. NumWorkGroups(r, 1) \in Nat /\ NumWorkGroups(r, 2) \in Nat /\ NumWorkGroups(r, 3) \in Nat
    BY ValidFacts DEF Dims
  <2>2. NumThreads(r) \in Nat
    BY <2>1, NodeFacts DEF NumThreads
  <2> QED BY <2>2
<1>2. g \in Nat /\ h \in Nat
  BY CoreNumInRange
<1>3. g = h
  BY <1>1, <1>2, WorkGroupInjective
<1>4. i - 1 = ThreadSize * g + ThreadID(i) /\ j - 1 = ThreadSize * h + ThreadID(j)
  <2>1. i - 1 \in Nat /\ j - 1 \in Nat
    OBVIOUS
  <2> QED BY <2>1, NodeFacts, DivMod, Zenon DEF GroupIndex, ThreadID
<1>5. i - 1 = j - 1
  BY <1>3, <1>4
<1> QED BY <1>5

(* A local id is below the local sizes of the launch's dimensions.          *)
LEMMA LocalIdBelow ==
  ASSUME NEW r, r.dim \in Dims, NEW l \in LocalIds(r)
  PROVE  l \in [Dims -> Nat] /\ \A d \in 1..r.dim : l[d] < r.lsz[d]
<1>1. l \in [Dims -> Nat] /\ \A d \in Dims : l[d] < LocalSize(r, d)
  BY Zenon DEF LocalIds
<1>2. ASSUME NEW d \in 1..r.dim PROVE l[d] < r.lsz[d]
  <2>1. d \in Dims /\ d <= r.dim
    BY DEF Dims
  <2>2. LocalSize(r, d) = r.lsz[d]
    BY <2>1 DEF LocalSize
  <2> QED BY <1>1, <2>1, <2>2
<1> QED BY <1>1, <1>2

(* No work item belongs to two threads.                                     *)
LEMMA OwnApart ==
  ASSUME IInv, NEW i \in 1..Len(ThreadGroup), NEW j \in 1..Len(ThreadGroup),
         NEW x \in Own(i), x \in Own(j)
  PROVE  i = j
<1> DEFINE r == CommonArgs.req
           A == ThreadGroup[i]
           B == ThreadGroup[j]
<1>1. PICK l \in Nest(r, ThreadSize, A.ThreadID) : x = GlobalId(r, A.WG, l)
  BY DEF Own
<1>2. PICK m \in Nest(r, ThreadSize, B.ThreadID) : x = GlobalId(r, B.WG, m)
  BY DEF Own
<1>3. LaunchType(r) /\ r.dim \in Dims /\ ThreadSize \in Nat \ {0}
  BY ThreadFacts, NodeFacts DEF LaunchType
<1>4. A.ThreadID \in 0..(ThreadSize - 1) /\ B.ThreadID \in 0..(ThreadSize - 1)
  BY ThreadFacts
<1>5. A.ThreadID \in Nat /\ B.ThreadID \in Nat
  BY <1>3, <1>4
<1>6. l \in LocalIds(r) /\ m \in LocalIds(r)
  BY <1>3, <1>5, NestIsLocal
<1>7. /\ l \in [Dims -> Nat] /\ m \in [Dims -> Nat]
      /\ \A d \in 1..r.dim : l[d] < r.lsz[d] /\ m[d] < r.lsz[d]
  BY <1>3, <1>6, LocalIdBelow, Zenon
<1>8. x \in GroupItems(r, A.WG)
  <2>1. GroupType(r, A.WG)
    BY ThreadFacts
  <2> QED BY <1>1, <1>3, <1>7, <2>1, GlobalIdInGroup
<1>9. x \in GroupItems(r, B.WG)
  <2>1. GroupType(r, B.WG)
    BY ThreadFacts
  <2> QED BY <1>2, <1>3, <1>7, <2>1, GlobalIdInGroup
<1>10. A.WG = B.WG
  <2>1. \A d \in 1..r.dim : A.WG[d] = B.WG[d]
    BY <1>8, <1>9 DEF GroupItems
  <2>2. \A d \in Dims : d > r.dim => A.WG[d] = 0 /\ B.WG[d] = 0
    BY ThreadFacts
  <2>3. A.WG[1] = B.WG[1] /\ A.WG[2] = B.WG[2] /\ A.WG[3] = B.WG[3]
    BY <1>3, <2>1, <2>2 DEF Dims
  <2>4. A.WG \in Nat \X Nat \X Nat /\ B.WG \in Nat \X Nat \X Nat
    BY ThreadFacts DEF ThreadType
  <2> QED BY <2>3, <2>4
<1>11. l = m
  <2>1. GroupType(r, A.WG)
    BY ThreadFacts
  <2>2. GlobalId(r, A.WG, l) = GlobalId(r, A.WG, m)
    BY <1>1, <1>2, <1>10
  <2> QED BY <1>3, <1>6, <2>1, <2>2, GlobalIdInjective
<1>12. A.ThreadID = B.ThreadID
  BY <1>3, <1>4, <1>11, NestsDisjoint
<1> HIDE DEF r, A, B
<1>13. /\ r \in Requests /\ Valid(r) /\ i \in Nat \ {0} /\ j \in Nat \ {0} /\ i <= NumThreads(r)
       /\ WorkGroupOf(r, GroupIndex(i)) = WorkGroupOf(r, GroupIndex(j))
       /\ ThreadID(i) = ThreadID(j)
  BY <1>10, <1>12, ThreadFacts DEF r, A, B
<1> QED BY <1>13, OneThreadPerChunk

-----------------------------------------------------------------------------
(* The index of an aligned nest stays within the bounds of its thread.      *)
IndexInv ==
  \A i \in 1..Len(ThreadGroup) :
    LET T == ThreadGroup[i]
    IN  T.st \in {"load", "store"} =>
          InBoundsOf(CommonArgs.req, ThreadSize, VL, T.ThreadID, T.ind)

LEMMA OneIndex ==
  ASSUME IInv, IndexInv, NEW i \in 1..Len(ThreadGroup), NEW e \in ThreadType,
         ThreadGroup' = [ThreadGroup EXCEPT ![i] = e], UNCHANGED CommonArgs,
         e.st \in {"load", "store"} =>
           InBoundsOf(CommonArgs.req, ThreadSize, VL, e.ThreadID, e.ind)
  PROVE  IndexInv'
<1>1. /\ Len(ThreadGroup') = Len(ThreadGroup)
      /\ \A j \in 1..Len(ThreadGroup) : ThreadGroup'[j] = IF j = i THEN e ELSE ThreadGroup[j]
  BY ThreadChange
<1> QED BY <1>1 DEF IndexInv

LEMMA IndexStep ==
  ASSUME AllAligned, IInv, IndexInv, [Next]_vars
  PROVE  IndexInv'
<1>1. ASSUME UNCHANGED <<CommonArgs, ThreadGroup>> PROVE IndexInv'
  BY <1>1 DEF IndexInv
<1>2. CASE UNCHANGED vars
  BY <1>1, <1>2 DEF vars
<1>3. ASSUME NEW r \in Requests, Reject(r) PROVE IndexInv'
  BY <1>1, <1>3 DEF Reject
<1>4. ASSUME NEW r \in Requests, Launch(r) PROVE IndexInv'
  BY <1>4, NobodyRuns DEF Launch, IndexInv
<1>5. CASE CreateThread
  <2> DEFINE n == Len(ThreadGroup)
             T == NewThread(n + 1)
  <2>1. n \in Nat /\ ThreadGroup \in Seq(ThreadType) /\ ThreadGroup' = Append(ThreadGroup, T)
        /\ UNCHANGED CommonArgs /\ T.st = "ready"
    BY <1>5, LenProperties DEF CreateThread, IInv, TypeOK, NewThread
  <2> HIDE DEF T
  <2>2. Len(ThreadGroup') = n + 1 /\ \A i \in 1..n : ThreadGroup'[i] = ThreadGroup[i]
    BY <2>1, AppendProperties
  <2>3. ThreadGroup'[n + 1] = T
    BY <2>1, AppendProperties
  <2>4. \A i \in 1..(n + 1) : i \in 1..n \/ i = n + 1
    BY <2>1
  <2> QED BY <2>1, <2>2, <2>3, <2>4 DEF IndexInv
<1>6. CASE FreeThread
  <2> DEFINE i == joined + 1
             e == [ThreadGroup[i] EXCEPT !.st = "freed"]
  <2>1. i \in 1..Len(ThreadGroup)
    BY <1>6, LenProperties DEF FreeThread, IInv, TypeOK
  <2>2. ThreadGroup[i] \in ThreadType
    BY <2>1, ThreadsWithinCall
  <2>3. e \in ThreadType /\ e.st = "freed"
    BY <2>2 DEF ThreadType
  <2>4. ThreadGroup' = [ThreadGroup EXCEPT ![i] = e] /\ UNCHANGED CommonArgs
    BY <1>6 DEF FreeThread
  <2> HIDE DEF e, i
  <2> QED BY <2>1, <2>3, <2>4, OneIndex
<1>7. CASE Return
  <2>1. Len(ThreadGroup') = 0
    BY <1>7, EmptySeq DEF Return
  <2> QED BY <2>1 DEF IndexInv
<1>8. ASSUME NEW c \in CUs, Dispatch(c) PROVE IndexInv'
  <2> DEFINE i == Head(Pool[c])
             r == CommonArgs.req
             e == [ThreadGroup[i] EXCEPT !.st = "load", !.args = CommonArgs,
                                         !.ind = FirstIndex(r, ThreadSize, ThreadGroup[i].ThreadID)]
  <2>1. i \in 1..Len(ThreadGroup)
    <3>1. Pool[c] \in Seq(Nat) /\ Pool[c] # <<>>
      BY <1>8 DEF IInv, TypeOK, Dispatch
    <3>2. 1 \in 1..Len(Pool[c]) /\ i = Pool[c][1]
      BY <3>1, HeadTailProperties, EmptySeq
    <3> QED BY <3>2 DEF IInv, PoolInv
  <2>2. /\ r \in Requests /\ LaunchType(r) /\ Aligned(r, ThreadSize, VL)
        /\ ThreadGroup[i] \in ThreadType
        /\ ThreadGroup[i].ThreadID \in 0..(ThreadSize - 1)
        /\ CommonArgs \in [launch : 1..MaxLaunches, req : Requests]
    BY <2>1, ThreadFacts, ThreadsWithinCall DEF AllAligned
  <2>3. FirstIndex(r, ThreadSize, ThreadGroup[i].ThreadID) \in [Dims -> Nat]
    <3>1. \A d \in 1..r.dim : r.lsz[d] \in Nat
      BY <2>2 DEF LaunchType
    <3>2. ThreadGroup[i].ThreadID \in Nat
      BY <2>2 DEF ThreadType
    <3> QED BY <3>1, <3>2, NodeFacts, FirstIndexType
  <2>4. /\ e \in ThreadType /\ e.ThreadID = ThreadGroup[i].ThreadID
        /\ e.ind = FirstIndex(r, ThreadSize, ThreadGroup[i].ThreadID)
    BY <2>2, <2>3 DEF ThreadType
  <2>5. ThreadGroup' = [ThreadGroup EXCEPT ![i] = e] /\ UNCHANGED CommonArgs
    BY <1>8 DEF Dispatch, hostVars
  <2>6. InBoundsOf(r, ThreadSize, VL, e.ThreadID, e.ind)
    BY <2>2, <2>4, NodeFacts, VLAssumption, AlignedFirst
  <2> HIDE DEF e, i
  <2> QED BY <2>1, <2>4, <2>5, <2>6, OneIndex
<1>9. ASSUME NEW c \in CUs, LoadStep(c) \/ StoreStep(c) \/ StoreExit(c) PROVE IndexInv'
  <2> DEFINE i == running[c]
             T == ThreadGroup[i]
             r == CommonArgs.req
  <2>1. i # 0
    BY <1>9 DEF LoadStep, StoreStep, StoreExit
  <2>2. /\ i \in 1..Len(ThreadGroup) /\ T \in ThreadType /\ T.args = CommonArgs
        /\ InBoundsOf(r, ThreadSize, VL, T.ThreadID, T.ind)
    BY <2>1, RunningThread DEF IndexInv
  <2>3. /\ LaunchType(r) /\ Aligned(r, ThreadSize, VL)
        /\ T.ThreadID \in 0..(ThreadSize - 1) /\ T.ThreadID \in Nat /\ T.ind \in [Dims -> Nat]
    BY <2>2, ThreadFacts DEF AllAligned, ThreadType
  <2>4. CASE LoadStep(c)
    <3> DEFINE e == [T EXCEPT !.st = "store"]
    <3>1. e \in ThreadType /\ e.ThreadID = T.ThreadID /\ e.ind = T.ind
      BY <2>2 DEF ThreadType
    <3>2. ThreadGroup' = [ThreadGroup EXCEPT ![i] = e] /\ UNCHANGED CommonArgs
      BY <2>4 DEF LoadStep, hostVars
    <3> HIDE DEF e
    <3> QED BY <2>2, <3>1, <3>2, OneIndex
  <2>5. CASE StoreStep(c)
    <3> DEFINE n == NextIndex(r, ThreadSize, T.ThreadID, VL, T.ind)
               e == [T EXCEPT !.st = "load", !.ind = n]
    <3>1. ~LoopDone(r, ThreadSize, T.ThreadID, VL, T.ind)
      BY <2>2, <2>5 DEF StoreStep, Ends
    <3>2. n \in [Dims -> Nat]
      <4>1. \A d \in 1..r.dim : r.lsz[d] \in Nat
        BY <2>3 DEF LaunchType
      <4> QED BY <2>3, <3>1, <4>1, NodeFacts, VLAssumption, NextIndexType
    <3>3. InBoundsOf(r, ThreadSize, VL, T.ThreadID, n)
      BY <2>2, <2>3, <3>1, NodeFacts, VLAssumption, AlignedNext
    <3>4. ThreadGroup' = [ThreadGroup EXCEPT ![i] = e] /\ UNCHANGED CommonArgs
      BY <2>2, <2>5 DEF StoreStep, hostVars
    <3> HIDE DEF n
    <3>5. e \in ThreadType /\ e.ThreadID = T.ThreadID /\ e.ind = n
      BY <2>2, <3>2 DEF ThreadType
    <3> HIDE DEF e
    <3> QED BY <2>2, <3>3, <3>4, <3>5, OneIndex
  <2>6. CASE StoreExit(c)
    <3> DEFINE e == [T EXCEPT !.st = "done"]
    <3>1. e \in ThreadType /\ e.st = "done"
      BY <2>2 DEF ThreadType
    <3>2. ThreadGroup' = [ThreadGroup EXCEPT ![i] = e] /\ UNCHANGED CommonArgs
      BY <2>6 DEF StoreExit, hostVars
    <3> HIDE DEF e
    <3> QED BY <2>2, <3>1, <3>2, OneIndex
  <2> QED BY <1>9, <2>4, <2>5, <2>6
<1> QED
  <2>1. CASE HostStep
    BY <1>1, <1>5, <1>6, <1>7, <2>1 DEF HostStep, StartFinish, Suspend
  <2> QED BY <1>2, <1>3, <1>4, <1>8, <1>9, <2>1 DEF Next, CUStep

(* The items of the vector in work are the thread's own, and not run yet.   *)
LEMMA CurrentIsNew ==
  ASSUME AllAligned, IInv, IndexInv, NEW c \in CUs, running[c] # 0, NEW x \in Current(c)
  PROVE  /\ x \in Own(running[c]) /\ x \notin Ran(running[c])
         /\ x \in ItemsOf(CommonArgs.req)
         /\ \E l \in Nest(CommonArgs.req, ThreadSize, ThreadGroup[running[c]].ThreadID) :
              /\ x = GlobalId(CommonArgs.req, ThreadGroup[running[c]].WG, l)
              /\ InVector(VL, ThreadGroup[running[c]].ind, l)
<1> DEFINE i == running[c]
           T == ThreadGroup[i]
           r == CommonArgs.req
<1>1. /\ i \in 1..Len(ThreadGroup) /\ T \in ThreadType /\ T.args = CommonArgs
      /\ T.st \in {"load", "store"} /\ InBoundsOf(r, ThreadSize, VL, T.ThreadID, T.ind)
  BY RunningThread DEF IndexInv
<1>2. /\ LaunchType(r) /\ Aligned(r, ThreadSize, VL) /\ GroupType(r, T.WG)
      /\ T.ThreadID \in 0..(ThreadSize - 1) /\ T.ThreadID \in Nat /\ T.ind \in [Dims -> Nat]
      /\ ThreadSize \in Nat \ {0} /\ VL \in Nat \ {0} /\ VL \in Nat
  BY <1>1, ThreadFacts, NodeFacts, VLAssumption, SMTT(30) DEF AllAligned, ThreadType
<1>3. x \in VectorItems(r, VL, T.WG, T.ind)
  BY <1>1 DEF Current, Vector
<1> HIDE DEF T, r
<1>4. PICK l \in [Dims -> Nat] : x = GlobalId(r, T.WG, l) /\ InVector(VL, T.ind, l) /\ l[1] < r.lsz[1]
  BY <1>2, <1>3, VectorItemsAre
<1>5. l \in Nest(r, ThreadSize, T.ThreadID)
  BY <1>1, <1>2, <1>4, AlignedVector
<1>6. l \in LocalIds(r)
  BY <1>2, <1>5, NestIsLocal
<1>7. x \in ItemsOf(r)
  <2>0. r.dim \in Dims
    BY <1>2 DEF LaunchType
  <2>1. \A d \in 1..r.dim : l[d] < r.lsz[d]
    BY <1>6, <2>0, LocalIdBelow, Zenon
  <2>2. x \in GroupItems(r, T.WG)
    BY <1>2, <1>4, <2>1, GlobalIdInGroup
  <2> QED BY <2>2 DEF GroupItems
<1>8. ~Before(l, T.ind)
  BY <1>2, <1>4, VectorNotBefore
<1>9. ASSUME NEW m \in Nest(r, ThreadSize, T.ThreadID), x = GlobalId(r, T.WG, m) PROVE m = l
  <2>1. m \in LocalIds(r)
    BY <1>2, NestIsLocal
  <2> QED BY <1>2, <1>4, <1>6, <1>9, <2>1, GlobalIdInjective
<1>10. x \notin RanBy(r, T)
  BY <1>1, <1>8, <1>9 DEF RanBy, Behind
<1> QED BY <1>4, <1>5, <1>7, <1>10 DEF T, r, Own, Ran

LEMMA RanIsOwn ==
  ASSUME NEW i
  PROVE  Ran(i) \subseteq Own(i)
BY DEF Ran, RanBy, Own

-----------------------------------------------------------------------------
(* The buffer shows exactly what was asked for, but for the items of the    *)
(* running call that no thread has run; the register of a thread that is    *)
(* about to store is up to date, for nobody else works on its items.        *)

Left(x) == Asked(x) /\ \A i \in 1..Len(ThreadGroup) : x \notin Ran(i)

Owing(x) == IF Left(x) THEN 1 ELSE 0

Exact == \A x \in Cells : expected[x] = mem[x] + Owing(x)

RegistersCurrent == \A c \in CUs : Storing(c) => \A x \in Current(c) : reg[c][x] = mem[x]

ExactInv == Exact /\ RegistersCurrent

LEMMA LeftNow ==
  ASSUME NEW x
  PROVE  Left(x)' <=> Asked(x)' /\ \A i \in 1..Len(ThreadGroup') : x \notin RanNow(i)
BY DEF Left, Ran, RanNow

LEMMA QuietExact ==
  ASSUME IInv, ExactInv, Quiet
  PROVE  ExactInv'
<1>1. UNCHANGED <<mem, expected>> /\ \A x : Asked(x)' <=> Asked(x)
  BY DEF Quiet, SameCall, Asked
<1>2. ASSUME NEW x PROVE (\A i \in 1..Len(ThreadGroup') : x \notin RanNow(i))
                           <=> \A i \in 1..Len(ThreadGroup) : x \notin Ran(i)
  BY DEF Quiet
<1>3. \A x : Owing(x)' = Owing(x)
  BY <1>1, <1>2, LeftNow DEF Owing, Left
<1>4. Exact'
  BY <1>1, <1>3 DEF ExactInv, Exact
<1>5. ASSUME NEW c \in CUs, StoringNow(c), NEW x \in CurrentNow(c)
      PROVE  reg'[c][x] = mem[x]
  <2>1. CASE KeepsRegister(c)
    BY <1>5, <2>1 DEF KeepsRegister, ExactInv, RegistersCurrent
  <2> QED BY <1>5, <2>1 DEF Quiet
<1>6. RegistersCurrent'
  BY <1>1, <1>5, StoringCurrent DEF RegistersCurrent
<1> QED BY <1>4, <1>6 DEF ExactInv

LEMMA StoresExact ==
  ASSUME AllAligned, IInv, IndexInv, ExactInv, NEW c \in CUs, Stores(c)
  PROVE  ExactInv'
<1> DEFINE k == running[c]
<1>1. UNCHANGED <<CommonArgs, expected>> /\ \A x : Asked(x)' <=> Asked(x)
  BY DEF Stores, SameCall, Asked
<1>2. k # 0 /\ k \in 1..Len(ThreadGroup) /\ Storing(c) /\ Len(ThreadGroup') = Len(ThreadGroup)
  BY RunningThread DEF Stores, Storing
<1>3. \A x \in Cells : mem'[x] = IF x \in Current(c) THEN reg[c][x] + 1 ELSE mem[x]
  BY DEF Stores
<1>4. /\ mem \in [Cells -> Nat] /\ expected \in [Cells -> Nat]
  BY DEF IInv, TypeOK
<1>5. ASSUME NEW x \in Current(c)
      PROVE  Left(x) /\ ~Left(x)' /\ reg[c][x] = mem[x]
  <2>1. /\ x \in Own(k) /\ x \notin Ran(k) /\ x \in ItemsOf(CommonArgs.req)
        /\ \E l \in Nest(CommonArgs.req, ThreadSize, ThreadGroup[k].ThreadID) :
             /\ x = GlobalId(CommonArgs.req, ThreadGroup[k].WG, l)
             /\ InVector(VL, ThreadGroup[k].ind, l)
    BY <1>2, CurrentIsNew
  <2>2. hostPc # "idle"
    BY <1>2, ThreadsWithinCall
  <2>3. \A i \in 1..Len(ThreadGroup) : x \notin Ran(i)
    BY <1>2, <2>1, OwnApart, RanIsOwn
  <2>4. x \in RanNow(k)
    BY <2>1 DEF Stores
  <2>5. ~Left(x)'
    BY <1>2, <2>4, LeftNow
  <2>6. reg[c][x] = mem[x]
    BY <1>2 DEF ExactInv, RegistersCurrent
  <2> QED BY <2>1, <2>2, <2>3, <2>5, <2>6 DEF Left, Asked
<1>6. ASSUME NEW x \in Cells, x \notin Current(c)
      PROVE  Left(x)' <=> Left(x)
  <2>1. ASSUME NEW i \in 1..Len(ThreadGroup) PROVE x \in RanNow(i) <=> x \in Ran(i)
    <3>1. CASE i = k
      BY <1>6, <3>1 DEF Stores
    <3>2. CASE i # k
      BY <3>2 DEF Stores
    <3> QED BY <3>1, <3>2
  <2> QED BY <1>1, <1>2, <2>1, LeftNow DEF Left
<1>7. Exact'
  <2>1. ASSUME NEW x \in Cells PROVE expected[x] = mem'[x] + Owing(x)'
    <3>1. expected[x] = mem[x] + Owing(x)
      BY DEF ExactInv, Exact
    <3>2. CASE x \in Current(c)
      <4>1. Owing(x) = 1 /\ Owing(x)' = 0 /\ mem'[x] = mem[x] + 1
        BY <1>3, <1>5, <3>2 DEF Owing
      <4> QED BY <1>4, <3>1, <4>1
    <3>3. CASE x \notin Current(c)
      BY <1>3, <1>6, <3>1, <3>3 DEF Owing
    <3> QED BY <3>2, <3>3
  <2> QED BY <1>1, <2>1 DEF Exact
<1>8. ASSUME NEW d \in CUs, StoringNow(d), NEW x \in CurrentNow(d)
      PROVE  reg'[d][x] = mem'[x]
  <2>1. d # c /\ KeepsRegister(d)
    BY <1>8 DEF Stores
  <2>2. Storing(d) /\ x \in Current(d) /\ reg'[d] = reg[d] /\ x \in Cells
    BY <1>8, <2>1, StoringCurrent DEF KeepsRegister
  <2>3. x \notin Current(c)
    <3>1. SUFFICES ASSUME x \in Current(c) PROVE FALSE
      OBVIOUS
    <3>2. running[d] # 0 /\ running[d] \in 1..Len(ThreadGroup)
      BY <2>2, RunningThread DEF Storing
    <3>3. x \in Own(k) /\ x \in Own(running[d])
      BY <1>2, <2>2, <3>1, <3>2, CurrentIsNew
    <3>4. k = running[d]
      BY <1>2, <3>2, <3>3, OwnApart
    <3> QED BY <1>2, <2>1, <3>4, RunningApart
  <2> QED BY <1>3, <2>2, <2>3 DEF ExactInv, RegistersCurrent
<1>9. RegistersCurrent'
  BY <1>8, StoringCurrent DEF RegistersCurrent
<1> QED BY <1>7, <1>9 DEF ExactInv

LEMMA LaunchExact ==
  ASSUME IInv, ExactInv, NEW r \in Requests, Launch(r)
  PROVE  ExactInv'
<1>1. Len(ThreadGroup') = 0 /\ Len(ThreadGroup) = 0 /\ \A c \in CUs : running'[c] = 0
  BY NobodyRuns DEF Launch
<1>2. ASSUME NEW x \in Cells PROVE expected'[x] = mem'[x] + Owing(x)'
  <2>1. expected[x] \in Nat /\ mem[x] \in Nat
    BY DEF IInv, TypeOK
  <2>2. expected[x] = mem[x]
    BY <2>1 DEF ExactInv, Exact, Owing, Left, Asked, Launch
  <2>3. (Left(x)' <=> x \in ItemsOf(r)) /\ mem' = mem
    BY <1>1, LeftNow DEF Asked, Launch
  <2>4. expected'[x] = expected[x] + Owing(x)'
    BY <2>3 DEF Owing, Launch
  <2> HIDE DEF Launch
  <2> QED BY <2>2, <2>3, <2>4
<1>3. Exact'
  BY <1>2 DEF Exact
<1>4. RegistersCurrent'
  BY <1>1 DEF RegistersCurrent, Storing
<1> QED BY <1>3, <1>4 DEF ExactInv

LEMMA ReturnExact ==
  ASSUME IInv, CallInv, ExactInv, Return
  PROVE  ExactInv'
<1>1. hostPc' = "idle" /\ UNCHANGED <<running, mem, expected>>
  BY DEF Return
<1>2. \A c \in CUs : running'[c] = 0
  BY <1>1, ReturnInv, NobodyRuns, EmptySeq DEF IInv, RunInv, Return
<1>3. ASSUME NEW x \in Cells PROVE expected'[x] = mem'[x] + Owing(x)'
  <2>1. Owing(x) = 0 /\ Owing(x)' = 0
    BY <1>1, AllRan DEF Owing, Left, Asked
  <2> QED BY <1>1, <2>1 DEF ExactInv, Exact
<1>4. Exact'
  BY <1>3 DEF Exact
<1>5. RegistersCurrent'
  BY <1>2 DEF RegistersCurrent, Storing
<1> QED BY <1>4, <1>5 DEF ExactInv

LEMMA InitExact == Init => IndexInv /\ ExactInv
<1> SUFFICES ASSUME Init PROVE IndexInv /\ ExactInv
  OBVIOUS
<1>1. Len(ThreadGroup) = 0 /\ \A c \in CUs : running[c] = 0
  BY EmptySeq DEF Init
<1>2. IndexInv
  BY <1>1 DEF IndexInv
<1>3. Exact
  BY DEF Init, Exact, Owing, Left, Asked, Zeros
<1>4. RegistersCurrent
  BY <1>1 DEF RegistersCurrent, Storing
<1> QED BY <1>2, <1>3, <1>4 DEF ExactInv

LEMMA ExactStep ==
  ASSUME AllAligned, IInv, CallInv, IndexInv, ExactInv, [Next]_vars
  PROVE  ExactInv'
BY StepEffects, QuietExact, StoresExact, LaunchExact, ReturnExact

(* The invariant of aligned launches.                                       *)
AlignedInv == IInv /\ CallInv /\ IndexInv /\ ExactInv

LEMMA AlignedInvariant == AllAligned => (Spec => []AlignedInv)
<1> SUFFICES ASSUME AllAligned PROVE Spec => []AlignedInv
  OBVIOUS
<1>1. Init => AlignedInv
  BY InitInv, InitApplied, InitExact DEF AlignedInv
<1>2. AlignedInv /\ [Next]_vars => AlignedInv'
  BY NextInv, CallStep, IndexStep, ExactStep DEF AlignedInv
<1> QED BY <1>1, <1>2, PTL DEF Spec

(* For sizes whose chunks and vectors fit together the buffer shows, when   *)
(* the call returns, exactly the launches that cover each element: nothing  *)
(* is lost between the load and the store of a vector step, whatever the    *)
(* execution streams do in between, and no other element is touched.        *)
THEOREM SaxpyResultHolds ==
  ASSUME \A r \in Requests : Valid(r) => Aligned(r, ThreadSize, VL)
  PROVE  Spec => []SaxpyResult
<1>1. AllAligned
  BY DEF AllAligned
<1>2. AlignedInv => SaxpyResult
  <2> SUFFICES ASSUME AlignedInv, hostPc = "idle" PROVE mem = expected
    BY DEF SaxpyResult
  <2>1. mem \in [Cells -> Nat] /\ expected \in [Cells -> Nat]
    BY DEF AlignedInv, IInv, TypeOK
  <2>2. \A x \in Cells : expected[x] = mem[x]
    BY <2>1 DEF AlignedInv, ExactInv, Exact, Owing, Left, Asked
  <2> QED BY <2>1, <2>2
<1> QED BY <1>1, <1>2, AlignedInvariant, PTL

(* For the same sizes no two ULTs are between the load and the store of the *)
(* same element, so that the race the loop nests could have does not exist. *)
THEOREM NoOverlapHolds ==
  ASSUME \A r \in Requests : Valid(r) => Aligned(r, ThreadSize, VL)
  PROVE  Spec => []NoOverlap
<1>1. AllAligned
  BY DEF AllAligned
<1>2. AlignedInv => NoOverlap
  <2> SUFFICES ASSUME AlignedInv, NEW c \in CUs, NEW d \in CUs, c # d, Storing(c), Storing(d),
                      NEW x \in Current(c), x \in Current(d)
               PROVE  FALSE
    BY DEF NoOverlap, Current
  <2>1. IInv /\ IndexInv
    BY DEF AlignedInv
  <2>2. running[c] # 0 /\ running[d] # 0
    BY DEF Storing
  <2>3. running[c] \in 1..Len(ThreadGroup) /\ running[d] \in 1..Len(ThreadGroup)
    BY <2>1, <2>2, RunningThread
  <2>4. x \in Own(running[c]) /\ x \in Own(running[d])
    BY <1>1, <2>1, <2>2, CurrentIsNew
  <2> QED BY <2>1, <2>2, <2>3, <2>4, OwnApart, RunningApart
<1> QED BY <1>1, <1>2, AlignedInvariant, PTL

-----------------------------------------------------------------------------
(* Refinement: what is pending for InOrderLaunch is what the running call   *)
(* has left to run.                                                         *)

LEMMA PendingIsLeft ==
  ASSUME TypeOK, Exact
  PROVE  Pending = {x \in Cells : Left(x)}
<1>1. ASSUME NEW x \in Cells PROVE mem[x] < expected[x] <=> Left(x)
  <2>1. mem[x] \in Nat /\ expected[x] \in Nat /\ expected[x] = mem[x] + Owing(x)
    BY DEF TypeOK, Exact
  <2>2. CASE Left(x)
    <3>1. expected[x] = mem[x] + 1
      BY <2>1, <2>2 DEF Owing
    <3> QED BY <2>1, <2>2, <3>1
  <2>3. CASE ~Left(x)
    <3>1. expected[x] = mem[x] + 0
      BY <2>1, <2>3 DEF Owing
    <3> QED BY <2>1, <2>3, <3>1
  <2> QED BY <2>2, <2>3
<1> QED BY <1>1 DEF Pending

LEMMA QuietRefines ==
  ASSUME Quiet
  PROVE  UNCHANGED Abstract!vars
<1>1. Pending' = Pending
  BY DEF Quiet, Pending
<1>2. (hostPc # "idle")' = (hostPc # "idle")
  BY DEF Quiet, SameCall
<1> QED BY <1>1, <1>2 DEF Quiet, Abstract!vars

LEMMA StoresRefines ==
  ASSUME AllAligned, IInv, IndexInv, ExactInv, IInv', ExactInv', NEW c \in CUs, Stores(c)
  PROVE  [Abstract!Next]_(Abstract!vars)
<1> DEFINE V == Current(c)
<1>1. /\ Storing(c) /\ running[c] # 0 /\ running[c] \in 1..Len(ThreadGroup)
      /\ V \subseteq Cells /\ mem \in [Cells -> Nat]
  BY StoringCurrent, RunningThread DEF Stores, Storing, IInv, TypeOK
<1>2. hostPc # "idle" /\ hostPc' # "idle" /\ UNCHANGED expected
  BY <1>1, ThreadsWithinCall DEF Stores, SameCall
<1>3. \A x \in Cells : mem'[x] = IF x \in V THEN mem[x] + 1 ELSE mem[x]
  BY <1>1 DEF Stores, ExactInv, RegistersCurrent
<1>4. mem' = [x \in Cells |-> IF x \in V THEN mem[x] + 1 ELSE mem[x]]
  BY <1>3 DEF Stores
<1>5. V \subseteq Pending
  <2>1. Pending = {x \in Cells : Left(x)}
    BY PendingIsLeft DEF IInv, ExactInv
  <2>2. ASSUME NEW x \in V PROVE Left(x)
    <3>1. x \in Own(running[c]) /\ x \notin Ran(running[c]) /\ x \in ItemsOf(CommonArgs.req)
      BY <1>1, CurrentIsNew
    <3>2. \A i \in 1..Len(ThreadGroup) : x \notin Ran(i)
      BY <1>1, <3>1, OwnApart, RanIsOwn
    <3> QED BY <1>2, <3>1, <3>2 DEF Left, Asked
  <2> QED BY <1>1, <2>1, <2>2
<1>6. Pending' = Pending \ V
  <2>1. ASSUME NEW x \in Cells PROVE x \in Pending' <=> x \in Pending \ V
    <3>1. /\ mem[x] \in Nat /\ expected[x] \in Nat /\ expected'[x] = expected[x]
          /\ expected[x] = mem[x] + Owing(x) /\ Owing(x) \in {0, 1}
      BY <1>2 DEF IInv, TypeOK, ExactInv, Exact, Owing
    <3>2. CASE x \in V
      <4>1. mem'[x] = mem[x] + 1
        BY <1>3, <3>2
      <4>2. ~(mem'[x] < expected'[x])
        BY <3>1, <4>1
      <4> QED BY <3>2, <4>2 DEF Pending
    <3>3. CASE x \notin V
      <4>1. mem'[x] = mem[x]
        BY <1>3, <3>3
      <4> QED BY <3>1, <3>3, <4>1 DEF Pending
    <3> QED BY <3>2, <3>3
  <2> QED BY <2>1 DEF Pending
<1> HIDE DEF V
<1>7. CASE V = {}
  <2>1. Pending' = Pending
    BY <1>6, <1>7
  <2>2. mem' = mem
    BY <1>1, <1>4, <1>7
  <2> QED BY <1>2, <2>1, <2>2 DEF Abstract!vars
<1>8. CASE V # {}
  <2>1. Pending' \in SUBSET Pending /\ Pending' # Pending /\ Pending \ Pending' = V
    BY <1>5, <1>6, <1>8
  <2>2. mem' = [x \in Cells |-> IF x \in Pending \ Pending' THEN mem[x] + 1 ELSE mem[x]]
    BY <1>4, <2>1
  <2>3. Abstract!Apply
    BY <1>2, <2>1, <2>2 DEF Abstract!Apply
  <2> QED BY <2>3 DEF Abstract!Next
<1> QED BY <1>7, <1>8

LEMMA LaunchRefines ==
  ASSUME IInv, IInv', ExactInv', NEW r \in Requests, Launch(r), ItemsOf(r) \subseteq Cells
  PROVE  Abstract!Begin
<1>1. Len(ThreadGroup') = 0 /\ hostPc = "idle" /\ hostPc' # "idle" /\ CommonArgs'.req = r
      /\ mem' = mem /\ Valid(r)
  BY NobodyRuns DEF Launch
<1>2. Pending' = {x \in Cells : Left(x)'}
  <2>1. TypeOK' /\ Exact'
    BY DEF IInv, ExactInv
  <2>2. (TypeOK /\ Exact => Pending = {x \in Cells : Left(x)})'
    BY PendingIsLeft, PTL
  <2> QED BY <2>1, <2>2
<1>3. Pending' = ItemsOf(r)
  <2>1. \A x \in Cells : Left(x)' <=> x \in ItemsOf(r)
    BY <1>1, LeftNow DEF Asked
  <2> QED BY <1>2, <2>1
<1> QED BY <1>1, <1>3 DEF Abstract!Begin

LEMMA ReturnRefines ==
  ASSUME IInv, CallInv, ExactInv, Return
  PROVE  Abstract!End
<1>1. hostPc # "idle" /\ hostPc' = "idle" /\ UNCHANGED <<mem, expected>>
  BY DEF Return
<1>2. Pending = {}
  <2>1. Pending = {x \in Cells : Left(x)}
    BY PendingIsLeft DEF IInv, ExactInv
  <2>2. \A x : ~Left(x)
    BY AllRan DEF Left
  <2> QED BY <2>1, <2>2
<1>3. Pending' = Pending
  BY <1>1 DEF Pending
<1> QED BY <1>1, <1>2, <1>3 DEF Abstract!End

(* A launch whose sizes fit together is what the caller was promised: the   *)
(* kernel is applied once to every work item of the NDRange, whatever the   *)
(* number of threads, cores or lanes, and the call returns when none is     *)
(* left.  The buffer has an element for every work item, which is up to the *)
(* caller.  (That it does return is LaunchReturns, a matter of fairness.)   *)
THEOREM LaunchesAreInOrder ==
  ASSUME \A r \in Requests : Valid(r) => Aligned(r, ThreadSize, VL) /\ ItemsOf(r) \subseteq Cells
  PROVE  Spec => Abstract!Init /\ [][Abstract!Next]_(Abstract!vars)
<1>1. AllAligned
  BY DEF AllAligned
<1>2. Init => Abstract!Init
  <2> SUFFICES ASSUME Init PROVE Abstract!Init
    OBVIOUS
  <2>1. hostPc = "idle" /\ mem = Zeros /\ expected = Zeros
    BY DEF Init
  <2>2. Pending = {}
    BY <2>1 DEF Pending, Zeros
  <2> QED BY <2>1, <2>2 DEF Abstract!Init, Zeros
<1>3. AlignedInv /\ AlignedInv' /\ [Next]_vars => [Abstract!Next]_(Abstract!vars)
  <2> SUFFICES ASSUME AlignedInv, AlignedInv', [Next]_vars
               PROVE  [Abstract!Next]_(Abstract!vars)
    OBVIOUS
  <2>1. IInv /\ CallInv /\ IndexInv /\ ExactInv /\ IInv' /\ ExactInv'
    BY DEF AlignedInv
  <2>2. CASE Quiet
    BY <2>2, QuietRefines
  <2>3. ASSUME NEW c \in CUs, Stores(c) PROVE [Abstract!Next]_(Abstract!vars)
    BY <1>1, <2>1, <2>3, StoresRefines
  <2>4. ASSUME NEW r \in Requests, Launch(r) PROVE [Abstract!Next]_(Abstract!vars)
    <3>1. ItemsOf(r) \subseteq Cells
      BY <2>4 DEF Launch
    <3>2. Abstract!Begin
      BY <2>1, <2>4, <3>1, LaunchRefines
    <3> QED BY <3>2 DEF Abstract!Next
  <2>5. CASE Return
    BY <2>1, <2>5, ReturnRefines DEF Abstract!Next
  <2> QED BY <2>1, <2>2, <2>3, <2>4, <2>5, StepEffects
<1> QED BY <1>1, <1>2, <1>3, AlignedInvariant, PTL DEF Spec
=============================================================================
