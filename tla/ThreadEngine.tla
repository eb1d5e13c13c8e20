----------------------------- MODULE ThreadEngine -----------------------------
(***************************************************************************)
(* A kernel launch from clEnqueueNDRangeKernel to its return: the checks    *)
(* of the call, ThreadEngine::setupCommonArgs, createThreadGroup and        *)
(* finishExecution on the host, and the ULTs the Argobots execution streams *)
(* (one per compute unit, each with a pool of its own) run concurrently.    *)
(*                                                                         *)
(* The kernel is the one the tests use to see a work item that ran twice or *)
(* not at all, saxpy: it reads an element of a buffer, changes it and       *)
(* writes it back.  mem counts the applications each element has seen, so   *)
(* that a lost update is a smaller count.  A vector step is a load followed *)
(* by a store, and other ULTs may run between the two.                      *)
(***************************************************************************)
EXTENDS NDRange, Sequences

CONSTANTS NumCUs,      \* numa_num_configured_cpus()
          NumNodes,    \* numa_max_node() + 1
          VL,          \* vector lanes (VecStepVal)
          Requests,    \* the arguments clEnqueueNDRangeKernel is called with
          Cells,       \* the elements of the buffer, by global id
          MaxLaunches  \* bound: kernel launches in a behaviour

NullArgs == {"none", "CQ", "Ker", "GlobalWorkSizes"}

(* A request: the null argument, if any, and the sizes, as many as dim.     *)
RequestType == [null : NullArgs, dim : Nat, offs : Seq(Nat), gsz : Seq(Nat), lsz : Seq(Nat \ {0})]

ASSUME CUsAssumption == NumNodes \in Nat \ {0} /\ NumCUs \in Nat /\ NumCUs >= NumNodes
ASSUME VLAssumption == VL \in Nat \ {0}
ASSUME MaxLaunchesAssumption == MaxLaunches \in Nat
ASSUME RequestsAssumption ==
  /\ Requests \subseteq RequestType
  /\ \A r \in Requests : \A s \in {r.offs, r.gsz, r.lsz} : Len(s) = r.dim
ASSUME CellsAssumption == Cells \subseteq Nat \X Nat \X Nat

CUs == 0..(NumCUs - 1)

NumCoresPerNode == NumCUs \div NumNodes

ThreadSize == NumCoresPerNode

VARIABLES
  hostPc,      \* where the host thread is in clEnqueueNDRangeKernel
  ret,         \* the code its last call returned
  launch,      \* number of launches so far
  CommonArgs,  \* the static argument block all ULTs read
  ThreadGroup, \* ThreadEngine::ThreadGroup, the Thread objects in creation order
  joined,      \* threads of the group finishExecution has deleted
  Pool,        \* each compute unit's pool: indices into ThreadGroup, first in first out
  running,     \* each compute unit's running ULT, 0 for none
  reg,         \* each compute unit's vector register, by the element a lane works on
  mem,         \* applications of the kernel each element of the buffer shows
  expected     \* history: applications the launches so far asked for

hostVars == <<hostPc, ret, launch, CommonArgs, joined>>
vars == <<hostPc, ret, launch, CommonArgs, ThreadGroup, joined, Pool, running, reg, mem, expected>>

-----------------------------------------------------------------------------
(* The call's checks, in the order the code makes them.                     *)

Divides(r) == \A i \in 1..r.dim : r.gsz[i] % r.lsz[i] = 0

Valid(r) == r.null = "none" /\ Divides(r) /\ r.dim \in Dims

NullError == [CQ |-> "CL_INVALID_COMMAND_QUEUE", Ker |-> "CL_INVALID_KERNEL",
              GlobalWorkSizes |-> "CL_INVALID_GLOBAL_WORK_SIZE"]

EnqueueError(r) ==
  IF r.null # "none" THEN NullError[r.null]
  ELSE IF ~Divides(r) THEN "CL_INVALID_WORK_GROUP_SIZE" ELSE "CL_INVALID_WORK_DIMENSION"

ReturnCodes == {"CL_SUCCESS", "CL_INVALID_COMMAND_QUEUE", "CL_INVALID_KERNEL",
                "CL_INVALID_GLOBAL_WORK_SIZE", "CL_INVALID_WORK_GROUP_SIZE",
                "CL_INVALID_WORK_DIMENSION"}

-----------------------------------------------------------------------------
(* Thread i of the group, counted from 1: createThreadGroup's loops, with   *)
(* dimension 0 of the work groups varying fastest.                          *)

GroupIndex(i) == (i - 1) \div ThreadSize
ThreadID(i)   == (i - 1) % ThreadSize

WorkGroupOf(r, idx) ==
  LET n1 == NumWorkGroups(r, 1)
      n2 == NumWorkGroups(r, 2)
  IN  <<idx % n1, (idx \div n1) % n2, idx \div (n1 * n2)>>

NumThreads(r) ==
  NumWorkGroups(r, 1) * NumWorkGroups(r, 2) * NumWorkGroups(r, 3) * ThreadSize

\* Mutant: work groups are spread over cores without regard to the nodes.
CoreNumAnyNode(i) == (GroupIndex(i) + ThreadID(i)) % NumCUs

\* Mutant: there is a node for every work group.
CoreNumUnwrapped(i) == GroupIndex(i) * NumCoresPerNode + ThreadID(i)

(* A work group's ULTs go to the cores of one node.                         *)
CoreNum(i) == (GroupIndex(i) % NumNodes) * NumCoresPerNode + ThreadID(i)

NoArgs == [launch |-> 0,
           req |-> [null |-> "none", dim |-> 0, offs |-> <<>>, gsz |-> <<>>, lsz |-> <<>>]]

Zeros == [x \in Cells |-> 0]

Origin == [d \in Dims |-> 0]

(* st: ready (in a pool), load / store (about to read / write a vector),    *)
(* done (terminated), freed (Thread object deleted).                        *)
NewThread(i) ==
  [CU |-> CoreNum(i), WG |-> WorkGroupOf(CommonArgs.req, GroupIndex(i)), ThreadID |-> ThreadID(i),
   st |-> "ready", args |-> NoArgs, ind |-> Origin]

-----------------------------------------------------------------------------
Init ==
  /\ hostPc = "idle"
  /\ ret = "CL_SUCCESS"
  /\ launch = 0
  /\ CommonArgs = NoArgs
  /\ ThreadGroup = <<>>
  /\ joined = 0
  /\ Pool = [c \in CUs |-> <<>>]
  /\ running = [c \in CUs |-> 0]
  /\ reg = [c \in CUs |-> Zeros]
  /\ mem = Zeros
  /\ expected = Zeros

(* clEnqueueNDRangeKernel returns an error.                                 *)
Reject(r) ==
  /\ hostPc = "idle"
  /\ ~Valid(r)
  /\ ret' = EnqueueError(r)
  /\ UNCHANGED <<hostPc, launch, CommonArgs, ThreadGroup, joined, Pool, running, reg, mem, expected>>

\* Mutant: the argument block of the first launch is kept.
LaunchKeepsArgs(r) ==
  /\ hostPc = "idle"
  /\ Valid(r)
  /\ launch < MaxLaunches
  /\ launch' = launch + 1
  /\ CommonArgs' = IF launch = 0 THEN [launch |-> launch + 1, req |-> r] ELSE CommonArgs
  /\ hostPc' = "create"
  /\ expected' = [c \in Cells |-> expected[c] + (IF c \in ItemsOf(r) THEN 1 ELSE 0)]
  /\ UNCHANGED <<ret, ThreadGroup, joined, Pool, running, reg, mem>>

(* The checks pass; Device::runKernel fills the argument block.             *)
Launch(r) ==
  /\ hostPc = "idle"
  /\ Valid(r)
  /\ launch < MaxLaunches
  /\ launch' = launch + 1
  /\ CommonArgs' = [launch |-> launch + 1, req |-> r]
  /\ hostPc' = "create"
  /\ expected' = [c \in Cells |-> expected[c] + (IF c \in ItemsOf(r) THEN 1 ELSE 0)]
  /\ UNCHANGED <<ret, ThreadGroup, joined, Pool, running, reg, mem>>

(* createThreadGroup: one Thread object and its ULT, pushed to the pool of  *)
(* its compute unit.  Other execution streams may start it at once.         *)
CreateThread ==
  LET i == Len(ThreadGroup) + 1
  IN  /\ hostPc = "create"
      /\ i <= NumThreads(CommonArgs.req)
      /\ ThreadGroup' = Append(ThreadGroup, NewThread(i))
      /\ Pool' = [Pool EXCEPT ![CoreNum(i)] = Append(@, i)]
      /\ UNCHANGED <<hostPc, ret, launch, CommonArgs, joined, running, reg, mem, expected>>

StartFinish ==
  /\ hostPc = "create"
  /\ Len(ThreadGroup) = NumThreads(CommonArgs.req)
  /\ hostPc' = "finish"
  /\ UNCHANGED <<ret, launch, CommonArgs, ThreadGroup, joined, Pool, running, reg, mem, expected>>

(* ~Thread: ABT_thread_free joins the ULT.  When it has not terminated, the *)
(* host ULT gives up execution stream 0, which then serves its pool.        *)
Suspend ==
  /\ hostPc = "finish"
  /\ joined < Len(ThreadGroup)
  /\ ThreadGroup[joined + 1].st # "done"
  /\ hostPc' = "suspended"
  /\ UNCHANGED <<ret, launch, CommonArgs, ThreadGroup, joined, Pool, running, reg, mem, expected>>

\* Mutant: the Thread object is deleted without joining its ULT.
FreeThreadNoJoin ==
  /\ hostPc = "finish"
  /\ joined < Len(ThreadGroup)
  /\ ThreadGroup' = [ThreadGroup EXCEPT ![joined + 1].st = "freed"]
  /\ joined' = joined + 1
  /\ UNCHANGED <<hostPc, ret, launch, CommonArgs, Pool, running, reg, mem, expected>>

(* The ULT has terminated and the host ULT has stream 0: the Thread object  *)
(* is deleted and the loop of finishExecution goes on.                      *)
FreeThread ==
  /\ \/ hostPc = "finish"
     \/ hostPc = "suspended" /\ running[0] = 0
  /\ joined < Len(ThreadGroup)
  /\ ThreadGroup[joined + 1].st = "done"
  /\ ThreadGroup' = [ThreadGroup EXCEPT ![joined + 1].st = "freed"]
  /\ joined' = joined + 1
  /\ hostPc' = "finish"
  /\ UNCHANGED <<ret, launch, CommonArgs, Pool, running, reg, mem, expected>>

(* ThreadGroup.clear() and the return of the call.                          *)
Return ==
  /\ hostPc = "finish"
  /\ joined = Len(ThreadGroup)
  /\ ThreadGroup' = <<>>
  /\ joined' = 0
  /\ hostPc' = "idle"
  /\ ret' = "CL_SUCCESS"
  /\ UNCHANGED <<launch, CommonArgs, Pool, running, reg, mem, expected>>

-----------------------------------------------------------------------------
(* Compute units.                                                          *)

\* Mutant: stream 0 does not serve its pool while the host waits.
DispatchNotOnPrimary(c) ==
  /\ running[c] = 0
  /\ Pool[c] # <<>>
  /\ c # 0
  /\ LET i == Head(Pool[c])
     IN  /\ running' = [running EXCEPT ![c] = i]
         /\ ThreadGroup' =
              [ThreadGroup EXCEPT ![i].st = "load",
                                  ![i].args = CommonArgs,
                                  ![i].ind = FirstIndex(CommonArgs.req, ThreadSize, ThreadGroup[i].ThreadID)]
  /\ Pool' = [Pool EXCEPT ![c] = Tail(@)]
  /\ UNCHANGED <<hostVars, reg, mem, expected>>

(* The stream takes the next ULT of its pool; the wrapper reads CommonArgs  *)
(* and computes the bounds.  Stream 0 is the host's unless it waits.        *)
Dispatch(c) ==
  /\ running[c] = 0
  /\ Pool[c] # <<>>
  /\ c = 0 => hostPc = "suspended"
  /\ LET i == Head(Pool[c])
     IN  /\ running' = [running EXCEPT ![c] = i]
         /\ ThreadGroup' =
              [ThreadGroup EXCEPT ![i].st = "load",
                                  ![i].args = CommonArgs,
                                  ![i].ind = FirstIndex(CommonArgs.req, ThreadSize, ThreadGroup[i].ThreadID)]
  /\ Pool' = [Pool EXCEPT ![c] = Tail(@)]
  /\ UNCHANGED <<hostVars, reg, mem, expected>>

(* The elements the next vector step of a thread works on.                  *)
Vector(T) == VectorItems(T.args.req, VL, T.WG, T.ind) \cap Cells

LoadStep(c) ==
  LET i == running[c]
  IN  /\ i # 0
      /\ ThreadGroup[i].st = "load"
      /\ reg' = [reg EXCEPT ![c] = [x \in Cells |->
                   IF x \in Vector(ThreadGroup[i]) THEN mem[x] ELSE 0]]
      /\ ThreadGroup' = [ThreadGroup EXCEPT ![i].st = "store"]
      /\ UNCHANGED <<hostVars, Pool, running, mem, expected>>

(* The masked store; the register is dead after it.                         *)
Store(c) ==
  LET V == Vector(ThreadGroup[running[c]])
  IN  /\ mem' = [x \in Cells |-> IF x \in V THEN reg[c][x] + 1 ELSE mem[x]]
      /\ reg' = [reg EXCEPT ![c] = Zeros]

Ends(T) == LoopDone(T.args.req, ThreadSize, T.ThreadID, VL, T.ind)

(* The store of a vector step after which the loop nest goes on, ...        *)
StoreStep(c) ==
  LET i == running[c]
      T == ThreadGroup[i]
  IN  /\ i # 0
      /\ T.st = "store"
      /\ ~Ends(T)
      /\ Store(c)
      /\ ThreadGroup' =
           [ThreadGroup EXCEPT ![i].st = "load",
                               ![i].ind = NextIndex(T.args.req, ThreadSize, T.ThreadID, VL, T.ind)]
      /\ UNCHANGED <<hostVars, Pool, running, expected>>

(* ... and the last one: the wrapper returns and the ULT terminates.        *)
StoreExit(c) ==
  LET i == running[c]
      T == ThreadGroup[i]
  IN  /\ i # 0
      /\ T.st = "store"
      /\ Ends(T)
      /\ Store(c)
      /\ ThreadGroup' = [ThreadGroup EXCEPT ![i].st = "done"]
      /\ running' = [running EXCEPT ![c] = 0]
      /\ UNCHANGED <<hostVars, Pool, expected>>

-----------------------------------------------------------------------------
HostStep == CreateThread \/ StartFinish \/ Suspend \/ FreeThread \/ Return

CUStep(c) == Dispatch(c) \/ LoadStep(c) \/ StoreStep(c) \/ StoreExit(c)

Next ==
  \/ \E r \in Requests : Reject(r) \/ Launch(r)
  \/ HostStep
  \/ \E c \in CUs : CUStep(c)

(* A call once begun goes on and every execution stream serves its pool;    *)
(* nothing makes the host enqueue again.                                    *)
Fairness == WF_vars(HostStep) /\ \A c \in CUs : WF_vars(CUStep(c))

Spec == Init /\ [][Next]_vars /\ Fairness

-----------------------------------------------------------------------------
Threads == DOMAIN ThreadGroup

ThreadType ==
  [CU : CUs, WG : Nat \X Nat \X Nat, ThreadID : Nat,
   st : {"ready", "load", "store", "done", "freed"},
   args : {NoArgs} \cup [launch : 1..MaxLaunches, req : Requests],
   ind : [Dims -> Nat]]

(* The type invariant.                                                      *)
TypeOK ==
  /\ hostPc \in {"idle", "create", "finish", "suspended"}
  /\ ret \in ReturnCodes
  /\ launch \in 0..MaxLaunches
  /\ CommonArgs \in {NoArgs} \cup [launch : 1..MaxLaunches, req : Requests]
  /\ ThreadGroup \in Seq(ThreadType)
  /\ joined \in Nat
  /\ Pool \in [CUs -> Seq(Nat)]
  /\ running \in [CUs -> Nat]
  /\ reg \in [CUs -> [Cells -> Nat]]
  /\ mem \in [Cells -> Nat]
  /\ expected \in [Cells -> Nat]

Live(i) == i \in Threads /\ ThreadGroup[i].st # "freed"

(* A ULT that is queued or running belongs to a Thread object that has not  *)
(* been deleted (its Args array is still there) and that is not terminated. *)
(* As the group is cleared before the call returns, no ULT survives its     *)
(* call, where CommonArgs and the caller's size arrays may be gone.         *)
NoDanglingULT ==
  \A c \in CUs :
    /\ \A k \in DOMAIN Pool[c] : Live(Pool[c][k])
    /\ running[c] # 0 => Live(running[c])

(* A ULT on a stream works with the arguments of the launch in progress,    *)
(* although it reads them, later and unlocked, from one static block which  *)
(* every launch overwrites.  That the launch in progress is the one that    *)
(* created the ULT is part of NoDanglingULT.                                *)
ArgsOfThisLaunch ==
  \A c \in CUs :
    running[c] # 0 => /\ ThreadGroup[running[c]].args = CommonArgs
                      /\ CommonArgs.launch = launch

(* The ULTs of a work group are on different cores of the same node.        *)
WorkGroupOnOneNode ==
  \A i, j \in Threads :
    i # j /\ ThreadGroup[i].WG = ThreadGroup[j].WG =>
      /\ ThreadGroup[i].CU # ThreadGroup[j].CU
      /\ ThreadGroup[i].CU \div NumCoresPerNode = ThreadGroup[j].CU \div NumCoresPerNode

(* When the call returns every work item of every launch has been executed, *)
(* and later launches have seen the results of earlier ones, for all sizes  *)
(* the checks let through.                                                  *)
EveryItemApplied == hostPc = "idle" => \A c \in Cells : mem[c] >= expected[c]

(* What the saxpy tests compare: each element has seen exactly the launches *)
(* that cover it, and no other element was touched.                         *)
SaxpyResult == hostPc = "idle" => mem = expected

(* No two ULTs are between the load and the store of the same element.      *)
Storing(c) == running[c] # 0 /\ ThreadGroup[running[c]].st = "store"

NoOverlap ==
  \A c, d \in CUs :
    c # d /\ Storing(c) /\ Storing(d) =>
      Vector(ThreadGroup[running[c]]) \cap Vector(ThreadGroup[running[d]]) = {}

(* clEnqueueNDRangeKernel returns, even when ULTs of the group are queued   *)
(* on the execution stream the host itself runs on.                         *)
LaunchReturns == hostPc # "idle" ~> hostPc = "idle"

-----------------------------------------------------------------------------
(* What a launch promises its caller: module InOrderLaunch, whose pending   *)
(* items are those of the running launch no ULT has stored yet.             *)

Pending == {c \in Cells : mem[c] < expected[c]}

Abstract == INSTANCE InOrderLaunch WITH
              busy <- hostPc # "idle",
              pending <- Pending,
              applied <- mem,
              Items <- Cells,
              Ranges <- {ItemsOf(r) : r \in {q \in Requests : Valid(q)}}

ImplementsInOrderLaunch == Abstract!Spec
=============================================================================
