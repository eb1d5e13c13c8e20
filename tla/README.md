# SVEOpenCL in TLA+

SVEOpenCL is an OpenCL 1.x runtime for Arm SVE processors.  The host program
calls a C API; kernels are compiled with clang, vectorized and wrapped with LLVM
passes, and executed by user-level threads (ULTs) of Argobots, one execution
stream per core.  These modules model what happens between
`clEnqueueNDRangeKernel` and its return, the objects the host creates and
releases (contexts, queues, buffers, programs, kernels and their arguments), the
build of a program with its temporary files, and the pass that vectorizes its
kernels.

Paths below are relative to the repository; the sources are in `src/`.

## 1. The system

| Component | Source | State | Operations |
|---|---|---|---|
| Platform, device | `PlatformLayerAPI.cpp`, `Device.cpp` | two singletons | queries; `runKernel` |
| Contexts, queues | `Context.h`, `CommandQueue*.cpp` | `ContextMap`, `CQMap` (reference counts); a queue has a context and a device | create, retain, release |
| Buffers | `BufferObjectAPI.cpp`, `MemoryObject.cpp` | `MemObjMap`; per buffer context, size, block, access flags; the heap | create, retain, release, read, write |
| Programs | `ProgramAPI.cpp`, `Program.cpp`, `Util.cpp` | `ProgMap`; per program a temporary file, JIT, module | create, retain, release, build, look up |
| Vectorizer, wrapper | `KernelVectorizer.cpp`, `KernelWrapper.cpp` | seeds, instructions to erase and the values done, in one object for all the kernels of a program | called by `build` for each function of the module |
| Kernels | `KernelAPI.cpp`, `Kernel.cpp` | `KernelMap`; per kernel copies of its arguments and the total size ever set | create, retain, release, set argument |
| Thread engine | `Thread.cpp` | `CommonArgs` (one static block), `ThreadGroup`, streams and pools | create group, finish |

How they interact.  Everything is called synchronously by the host thread.
`clEnqueueNDRangeKernel` checks its arguments, and through
`_cl_kernel::enqueueKernel`, `_cl_command_queue::enqueueKernel` and
`_cl_device_id::runKernel` reaches the thread engine.  That fills `CommonArgs`,
creates one ULT per work group and core of a NUMA node in the pools of the cores,
and deletes them one by one, which joins them.  The ULTs run concurrently with
each other and with the creation of the rest of the group.  `clSetKernelArg`
copies the address of a buffer's block into the kernel; a launch follows it.
`clBuildProgram` hands the program's temporary file to clang, parses the result
twice, once for the JIT and once for the module `clCreateKernel` looks names up
in, and walks over the functions of the module: the vectorizer appends a clone of
each kernel, the wrapper generator appends wrappers.  `clCreateKernel` stores the
addresses of three wrappers in the kernel.  A queue and a buffer store the address
of their context; nothing counts these references.

What is hard.  (a) The index arithmetic: chunk bounds, do-while loop nests, and a
vector mask are computed in four different places and must fit together for every
size.  (b) Concurrency: the ULTs read shared, unlocked state when they start,
not when they are created, and write one buffer.  (c) Lifetimes: `Thread`
objects and their `Args`, offset arrays that are deleted after a launch,
buffers that kernels name by address, contexts that queues and buffers name by
address, a JIT that kernels point into, handles and blocks the allocator reuses.
(d) The host occupies the stream whose pool holds ULTs it waits for.
(e) Counters (`TotalArgSize`, reference counts, `size_t` sums) over long
sequences of calls.  (f) Files that outlive the process, with names every process
draws in the same order.  (g) A loop over a list its body appends to, and a walk
over a graph of values that erases what it has rewritten.  `PROJECT.json` lists these hazards line by line.

What makes each part correct:
- launch: every work item executed, once, before the call returns; the call returns;
- thread engine: no ULT uses freed or foreign state; a work group stays on a node;
- buffers: each is an array of its own and lives exactly as long as it is held;
- kernels: a launch finds the arguments last accepted; the limit is on what they hold;
- contexts: a transfer within a context is not refused, and one between two contexts is
  for as long as the older of them exists;
- programs: a build defines the symbols of its source and ends; a kernel finds its code
  exactly as long as its program is held and not built again; a program is built from its own source;
- vectorizer: which kernels are vectorized depends on the kernel alone; users are
  erased before what they use; a clone leaves in memory what the kernel would.

## 2. The modules

| Module | Models | Uses |
|---|---|---|
| `NDRange` | pure operators: chunks, loop nest, mask, global ids; the set of work items asked for; `Aligned` | |
| `WorkGroup` | one work group, its ULTs one after the other | `NDRange` |
| `InOrderLaunch` | abstract: a launch applies the kernel once to each item | |
| `ThreadEngine` | a launch, from the call's checks to its return, with the streams | `NDRange`, refines `InOrderLaunch` |
| `RefMap` | `retain` and `release` of `Util.h` | |
| `BufferStore` | abstract: buffers are independent arrays | |
| `MemoryObjects` | the buffer calls over a heap | `RefMap`, refines `BufferStore` |
| `KernelArgs` | kernels and their arguments, beside the buffers | `MemoryObjects` |
| `Contexts` | contexts and queues, with the buffers transferred through them | `MemoryObjects` |
| `Programs` | programs, their build, and the kernels that point into it | `RefMap` |
| `TempFiles` | the temporary files of programs, several processes in one directory | |
| `KernelVectorizer` | the vectorizer on every small straight-line kernel with at most one branch, and what its result computes | |
| `DataProofs` | lemmas about `NDRange` and `RefMap`, and `ChunksPartition` | `NDRange`, `RefMap` |
| `WorkGroupProofs`, `ThreadEngineProofs`, `MemoryObjectsProofs`, `KernelArgsProofs`, `ContextsProofs`, `ProgramsProofs` (with the theorems on `TempFiles`), `KernelVectorizerProofs` | theorems | the module named |
| `MCWorkGroup`, `MCThreadEngine`, `MCMemoryObjects`, `MCKernelArgs`, `MCContexts`, `MCPrograms`, `MCTempFiles`, `MCKernelVectorizer` | constants for TLC | the module named |

### State and actions against the code

**NDRange.**  Dimension *d* of the code is *d+1* here, and indices always have three
coordinates.  `ChunkSize`, `LowerBound` and `UpperBound` are
`_SOCL_thread_wrapper_{1,2,3}D`; `LoopStart`/`LoopEnd` are the `Args` array as the
`Thread` constructors and the wrappers fill it; `Continues` is the comparison at
`KernelWrapper.cpp:60`, *after* the body; `ActiveLanes` is the `whilelo` of
`createMask`; `GlobalId` is `replaceIndexFunctions`.

**ThreadEngine.**  `hostPc` is where the host is: `create` and `finish` are
`createThreadGroup` and `finishExecution`, `suspended` is inside
`ABT_thread_free` with its stream given up.  `Reject` is a call that returns an
error; `Launch` the checks and `setupCommonArgs`; `CreateThread` one iteration of
the innermost loop of `createThreadGroup`; `Suspend`/`FreeThread` one iteration
of `finishExecution`; `Return` the clearing of the group and the return.
`Dispatch` is a stream taking a ULT, which reads `CommonArgs`; `LoadStep` and
`StoreStep`/`StoreExit` are the two halves of the kernel body for one vector.
The kernel is `saxpy` of the tests, because an element it is applied to twice or
never is visible in the result: `mem` counts applications.  A lane works in
`reg`, so a lost update shows.  Cells outside the range are part of the buffer
so that a stray index shows too.  Argobots is external and is modelled by what
the code relies on: a pool is first in first out, a stream runs one ULT at a time
to its end, and a join returns once the ULT has terminated.  A suspended host
may resume as soon as its stream is free and the ULT has terminated; Argobots
is at liberty to run other ULTs first, and so is the model.

**MemoryObjects.**  `mem` are the objects, `MemObjMap` the counts, `heap` the
bytes; addresses and sums have `Width` bits.  `CreateBuffer` chooses any unused
handle and any aligned free block, so every reuse happens.  `held` is history:
what the host retained and has not released.  Reads and writes take a handle the
host holds, as the code dereferences it unchecked; retain and release take any.
`ArgumentRefused` are the calls refused for a NULL context, queue or buffer, or for
events, which are not implemented.

**KernelArgs.**  `ker` has the copies and `TotalArgSize`; `KindError`,
`SetArgError`, `Copied` and `WithArg` follow `setArg` in order.  `argOf` is history:
the buffer last set and still alive.  `BufferCall` is any buffer call that changes
objects (a transfer does not).  `KernelRefused` is the refusal of a kernel that is
NULL or does not exist.

**Contexts.**  `ContextMap` and `CQMap` are the maps of the same names; a queue
keeps the address of its context, and so does a buffer (`mem[m].Ctx`).  `CreateContext`,
`CreateCommandQueue`, the retains and releases and their refusals follow the API
functions; `CreateMem`, `CountMem` and `TransferVia` are the buffer calls of
`MemoryObjects`, a transfer taking its context from a queue, and `BufferRefused` their
refusals.  `number`, `memIn`
and `queueIn` are history: contexts are numbered as they are created, to tell
apart those that had one address.

**Programs.**  A source is a sequence of functions of three kinds: kernels the
vectorizer accepts, kernels it gives up on, other functions.  `BuildProgram` is
`build()` up to its loop; `VisitFunction` one iteration (`VectorizeKernel`, then
`CreateWrapperFunction` for the kernel and its clone, both appending to `Mod`);
`FinishBuild` adds the module to the new JIT and parses the file for `M`.
`HasKernel` and `Looked` are what `clCreateKernel` asks the program for.
`CreateKernelDies` and `BuildDies` are the ends of the process the code has
(`ExitOnError`, a module that does not parse), and `FinishBuild` may end it too in
a second build, whose first statement destroys a context still in use.  `usable` is
history: the kernels whose program has neither been built again nor given up.

**TempFiles.**  A name is the number of times `genRandomStr` was called since the
process started: `rand()` is not seeded, so all processes draw the same ones.
`Create`, `TryAgain`, `GiveUp`, `FindNoSource` and `FindName` are the constructor's loop.
It calls `access()` twice, for `name.cl` and then for `name.ll`, and the two calls are two
steps, as other processes go on in between.  `Open` and `AddStrings` create the file and write it, `Clang`,
`ParseForJIT` and `ParseForM` the steps of `build()` that touch files.  `Stop` ends
or kills a process anywhere, `Seed` is a host program that calls `srand`.  A file
holds the number of the program whose text it has.  `raced` is history: the names whose
`.cl` one process opened when another had found that it does not exist and had not
opened it yet (`PassedBy`).

**KernelVectorizer.**  `EmitInstruction` and `EmitBranch` are the front end: they
produce every straight-line kernel with at most one branch within the bounds; there
are no loops and no phis, at which the walk would give up.  `VectorizeKernel` is `vectorizeKernel` up
to `doVectorization`: seeds, number of elements, mask.  The recursion of
`vectorizeValue` is walked call by call: `calls` is its call stack, above the seeds
the loop has yet to come to.  `VectorizeOperand` calls for the first operand that is
not in `VecValueMap`; `DuplicateConstValue`, `VectorizeResult` and `VectorizeStore`
are the returns of a call that succeeds, `GiveUp` that of one that fails and with it
all the calls around it; `EraseAll` reverses `EraseInstrs` and erases.  A value is
named by its place in the function, so the values of the next kernel have the
addresses of the last one's, as they may have in the program.  `ScalarResult` and
`VectorResult` execute the kernel and its clone under the wrapper's loop, on a memory
of `Top` + 1 elements per array; `Step` is one instruction of a call (`Reached`: its
branch is taken; `Results`: what it yields on each lane; `Store`: what it leaves in
memory).

## 3. The runs

| Run | Bounds | Shows |
|---|---|---|
| `workgroup` | local sizes 1..9 (1D), up to 5 (2D), 3 (3D); 1..4 ULTs; 1, 2, 4 lanes | `Coverage`: nothing skipped, for all sizes. `ExactlyOnceIffAligned`: exactly once precisely for `Aligned` sizes. `MaskedInGroup`: in 1D nothing outside the group. `NestEnds`. |
| `engine` | 5 cores on 2 nodes, 2 lanes, 2 launches, 1D and 3D, sizes that overlap, all refusals | `TypeOK`, `NoDanglingULT`, `ArgsOfThisLaunch`, `EveryItemApplied`, `WorkGroupOnOneNode` |
| `engine_aligned` | 2 cores, 2 lanes, 2 launches, 1D, 2D and 3D | `SaxpyResult`, `NoOverlap`, `ImplementsInOrderLaunch`, `LaunchReturns` |
| `engine_rows` | 2 cores, 2 groups of one row | a stray row (finding 1) |
| `buffers` | 2 handles, 3-bit addresses, sizes 0..2, 2 writes, 2 references | `HeldIsLive`, `ImplementsBufferStore` |
| `buffer_range` | the same, sums may wrap | the check accepts a wrapped sum (finding 3) |
| `kernel_args` | 2 buffers, 1 kernel, a `__global` and a value parameter, limit 8 | `TypeOK`, `ArgsNameTheirBuffers`, `ArgsWithinLimit`, `RefusedKeepsArgs` |
| `kernel_args_again` | the same | replacing an argument is refused in the end (finding 2) |
| `contexts` | 2 context addresses, 4 contexts, 2 queues, 1 buffer, 2 references | `ContextsKeptApart` |
| `programs` | 2 programs, 2 kernels, 3 sources, 2 builds, 2 references | `KernelCodeLive`, `SymbolsOfSource`, `BuildEnds` |
| `temp_files` | 2 processes, 4 programs, 2 tries, 3 names | `BuiltFromItsSource`, `ReturnsWhileNamesLast` |
| `vectorizer` | up to 2 kernels, 4 instructions (`Sub`, `FNeg`, conversions, loads, stores), arrays of 32 and 64 bits, 3 work items | `ErasedAfterUsers`, `OneElementCount`, `VectorizedIffSupported`, `VectorMatchesScalar` |

**Why the bounds are enough.**  The index arithmetic depends on the local size
against the number of ULTs (fewer, equal, a multiple, with a remainder, with
empty chunks) and of the chunk against the lanes; sizes to 9 with up to 4 ULTs
and 4 lanes contain every combination, and every chunk of every group is
walked; `runs` counts to 2 (`MaxRuns`), as a third execution is no worse than a
second.  Two cores, with one of them the host's, give every order of two ULTs,
and a work group's chunks are only shared between neighbours; two launches show
what a launch leaves behind.  Five cores on two nodes have a remainder and more
groups than nodes.  Two handles and a heap of three blocks show every reuse
(a handle with another block, a block with another handle) and neighbouring
blocks; 3 bits of `size_t` are enough to pass the end of a block and to wrap.
Sizes 2 and 7 against the limit 8 reach it in one call and in several.
Two addresses for four contexts let each address be used again while a queue or
the buffer still carries it.  Two builds, of one program or of two, show a JIT
that is replaced and one that is deleted while kernels point into it.  Four
programs over three names and two tries meet a name that is free, one that is
taken, one that two processes find free, and the last try; both processes are
interchangeable (`SYMMETRY`).  Four instructions are a load, a load, an operation
and a store, or several stores that share an operand; three work items leave the
last vector part empty for both widths (4 and 2 lanes).
`CHECK_DEADLOCK FALSE` is used where the system may really stop: for `WorkGroup`,
which ends when its ULTs have, for `Programs`, whose process may be gone, and for
`KernelVectorizer`, whose program has a last kernel.

`Aligned(r, T, VL)` is the condition under which the code does what OpenCL asks.
In one dimension the chunk is a multiple of the lanes, or one chunk holds the
group; in more, no ULT's first row is past the group.  The 1D tests
(`test/kernel.c`: local size 4096 * 48) satisfy it on nodes of 12 or 48 cores; the equivalence
in `ExactlyOnceIffAligned` says that it is neither too weak nor too strong.

**Fairness.**  `ThreadEngine!Spec` has weak fairness on the host's own steps
inside a call and on each stream: the host thread is a running thread, each
stream is an OS thread bound to its core that loops over its pool, and a ULT never
blocks.  The host need not enqueue another kernel, so `Launch` and `Reject` are
not fair.  `WorkGroup` has weak fairness on its only process.  `Programs` has it on
the steps inside `clBuildProgram`, a function the host thread is executing; the
calls themselves are not fair.  The other modules have none, and no liveness is
claimed of them.

**What the vectorizer's properties leave out.**  `VectorMatchesScalar` is about
kernels whose items are independent (`Independent`), whose vectorized accesses are
to consecutive elements under conditions that do not depend on the item (`Regular`),
and in which nothing that stays scalar uses a vectorized load (`NoUserLeft`).  The
vectorizer checks none of these, and the run does produce kernels that lack them;
the repository does not say which kernels it is meant for.  For others, the clone
differs from the kernel.  The other three properties are about every kernel the front end of
the model produces.

**What `BuiltFromItsSource` leaves out.**  When one process creates `name.cl` after
another's `access()` found that it does not exist, and before that one opens it
(`raced`), the two may share the file, and one may build the other's source.  The second
`access()`, for `name.ll`, falls into this window and closes it only when the first
process has compiled by then.  Programs with such a name are set aside, all others are not.

### Findings

1. *A ULT without rows executes one* (`KernelWrapper.cpp:60`, against the result
   the test at `test/kernel.c:208` expects).  The row is the next group's, or past
   the buffer after the last group.
2. *Setting an argument again uses up the limit* (`Kernel.cpp:99`, against
   `test/kernel.c:113`, which sets arguments before every launch).
3. *The range check wraps* (`MemoryObject.cpp:30` and `:42`, against
   `test/buffer_object.c:53`).  An offset near the top of `size_t` is accepted.

Seen while modelling, and not counted as findings because a passing run already
shows them or no document of the repository promises otherwise:

- A vector step passes the upper bound of its ULT's chunk, as the mask is that of the
  work group (`KernelVectorizer.cpp:104`).  Items at the end of a chunk run twice,
  harmless to `copy` and `add` and wrong for `saxpy`; `ExactlyOnceIffAligned` says
  for which sizes.
- `clCreateKernel` of a kernel the vectorizer gave up on ends the process
  (`Program.cpp:153`): `hasKernel` finds the function, the wrapper of its clone is missing.
- Leftover temporary files use up the 100 names every process tries
  (`ReturnsWhileNamesLast` says that nothing else does).
- An array of `long double` is vectorized with a bit width the wrapper generator
  holds to be unreachable (`KernelWrapper.cpp:112`).

## 4. The proofs

All theorems hold for every value of the constants that satisfies the named
assumptions of the module.

**DataProofs.**  `ChunksPartition`: for every local size and number of ULTs,
each index belongs to the bounds of exactly one ULT.  It rests on
`ChunkSizeFacts` (the ceiling division covers) and quotient/remainder lemmas.
Bounds are right, then, for all sizes; it is the mask that passes them.  The module
also has what the other proofs keep needing: what one turn of a loop nest
executes and skips, what `Aligned` says of bounds and lanes, that a global id
belongs to one work group and one local id, and what a new entry, `retain()` and
`release()` do to a map of counts.

**WorkGroupProofs.**  One work group, for every launch, ULT count and vector length
(`LaunchesAssumption`: sizes are sequences of naturals, local sizes not 0).
`GroupsAreCovered`: by the invariant `Covered`, the loops passed so far and the
part of the running one before its index have run all their items; that the
nests of all ULTs together are the group is `ChunksPartition` once more.
`MaskHolds` follows from the mask alone.  `ExactWhenAligned` is an equivalence.
One direction is an invariant: at aligned sizes the running nest is within its
bounds, what was run is what is passed, and nothing of it twice.  The other shows that
a group which is not aligned has done something wrong at the end: in two or three
dimensions the last ULT's first row is past the group and leaves a stray item
(`FirstVectors`); in one, the first ULT's last vector passes its chunk, and the first
item of the second chunk is run twice (`Twice`).

**ThreadEngineProofs.**  `TypeCorrect`, `NoULTDangles`, `ArgsAreOfThisLaunch` and
`GroupsStayOnTheirNode` follow from one inductive invariant
(`InductiveInvariant`, the conjunction of `TypeOK`, `HostInv`, `GroupInv`,
`PoolInv` and `RunInv`).  `NoDanglingULT` is not inductive: that a queued ULT is live
needs that exactly the first `joined` threads are freed, that a thread in a pool
is `ready` and one on a stream has started, and that both are on their own
compute unit's, oldest first, so that no thread is in two places.
`ArgsOfThisLaunch` needs that no ULT exists while `hostPc` is `idle`, as that is
when `CommonArgs` changes, and that a started ULT holds the current arguments.
Placement needs what `CreateThread` computed for each
position in the group, and arithmetic about `i % NumNodes` and
`NumCoresPerNode`; hence `CUsAssumption` (at least one core per node).

`EveryItemAppliedHolds` has no hypothesis: it holds also at sizes where the vectors
of two ULTs overlap and an update is lost.  `AppliedInv` says why: during a call
every cell is at most one application behind (`AtMostOwed`), a cell a thread has
passed is not behind at all (`RanApplied`), and a register about to be stored was
at most one behind (`RegistersFresh`), so the value stored, one more, is not behind.
A lost update then overwrites a cell with an application of this launch, never
with an older value.  When the last thread is joined every item has been passed, as `CallInv` says that the group has all the
threads of the launch, and their nests are the work items of the range.

`SaxpyResultHolds`, `NoOverlapHolds` and `LaunchesAreInOrder` assume that the sizes
of every request the checks accept are `Aligned`.  The code does not check that;
`ExactWhenAligned` and finding 1 show that without it the three are false.  What
aligned sizes give is that the index of a running thread never passes its bounds
(`IndexInv`), so that a thread works on elements of its own (`Own`, `OwnApart`) and no
element twice (`CurrentIsNew`).  Hence `ExactInv`: a cell is behind exactly if the
thread that owns it has yet to pass it, and a register about to be stored equals
its cell, since no other stream can store to it in between.  `LaunchesAreInOrder`
is the safety part of `ImplementsInOrderLaunch`: initial states map to initial
states, `Launch`, a store and `Return` to `Begin`, `Apply` and `End`, all else
to a stutter.  It also assumes that the buffer has an element for each item,
which is the caller's duty and true of every test.

**MemoryObjectsProofs.**  `HeldBuffersAreLive`, from `MemInv`: types, a count
equals what the host holds, blocks apart.  `HeldIsLive` alone says nothing of
counts, so a release could not be shown to keep it.  `BuffersAreArrays`:
`MemSpec` implements `BufferStore` under the mapping `Contents`, which reads each
buffer's bytes off the heap.  `StoreInv` adds to `MemInv` that heap bytes have their
type and that no block is empty or passes the end of the heap; a transfer that is
accepted then stays in its block (`AcceptedFacts`) and, blocks being apart, changes no other
buffer.  The theorem assumes `~AllowWrap`: with sums that wrap it is false, which is finding 3.

**KernelArgsProofs.**  `KernelTypeCorrect`, `LaunchFindsItsBuffers` and
`RefusedCallsKeepArgs`, from `MemInv`, types and `OnlyLiveKernels` (a kernel that does not exist has no
arguments, without which creating one at a reused address would bring back old
ones).  Every buffer call leaves the buffers that survive it as they were
(`BuffersStay`).  `LimitHolds`, for every number of parameters: the sizes of the copies add up to no
more than `TotalArgSize`, which is within the limit (`LimitInv`).
That a sum over a finite set of parameters changes by one summand when one
argument does is proved from the definition of the fold; the induction over the
set is a smallest counterexample (`SmallestSet`).

**ContextsProofs.**  `ContextsStayApart`.  The property is exact about reused addresses: a queue
and a buffer of two contexts carry one address only if the older context was deleted.
It is not inductive.  It needs that numbers tell the existing contexts apart
(`Numbered`), that a buffer or queue whose own context exists carries its address
(`MemAtContext`, `QueueAtContext`), that what carries an existing context's address is
no younger than that context (`MemOfOlder`, `QueueOfOlder`), both of which a context
created at a reused address keeps because its number is new, and that a queue and a
buffer of one context carry one address for ever (`OneAddress`).  The buffers' part is `MemInv` of `MemoryObjectsProofs`,
which every call of the composed module keeps.

**ProgramsProofs.**  `KernelsKeepTheirCode`.  The inductive invariant `ProgInv` adds to
types that a program's count is what the host holds (so a release the host may
still follow by a use does not delete it), that no two programs share a JIT
(`OwnJIT`: deleting or replacing one leaves the others'), that a usable kernel points into
the JIT its program has now, where its three wrappers are (`JITOfProgram`), and that
the JIT of any other kernel is gone (`JITGone`), which the property says as well: JITs are
numbered, so none comes back.
`JITDefinesItsSource`, for every set of sources (`SourcesAssumption`: sequences of
named functions): while a build runs, the module begins with the functions of the
source, unchanged, everything after them is no kernel, and its symbols are those of
the source and of what the functions before `at` add (`BuildInv`).  The visits to
the appended functions add nothing, so at the end the symbols are the expected ones.

The module also has the theorems on `TempFiles` (`FilesSpec`).
`BuiltFromItsSourceHolds` from `FileInv`, for any number of
processes: a name between its first `access()` and `fopen` has no `.cl`, one that is
open has no second writer and no program yet, and a program's `.cl`, its `.ll` once
clang ran, and what was parsed of them are its own; each unless the name was `raced`.
`ReturnsWhileNamesLastHolds` counts: files and programs that have none yet are
together at most the programs created (`FilesCounted`), and a constructor has a
file in its way for each name it tried (`TriedNames`).

**KernelVectorizerProofs.**  Straight-line kernels of any length with at most one branch
and no phis, any number of them, arrays of any
number and length, any parameters and group size; the assumptions are that element types
and parameters have the bit widths of OpenCL's scalar types (`ElementBitsAssumption`,
`ParamsAssumption`), that the binary opcodes are LLVM's (`BinaryAssumption`), and the
types of the numbers.  The values of a kernel are computed by recursion over the
values before them (`CalcNumSVEElmnts`, `Strides`, a run) or after them (`Stored`).
That such a function exists and satisfies its equation is proved once for each kind
(`RecursiveFromBelow`, `RecursiveFromAbove`, `RecursiveFromLast`), by induction on
how far it is defined; the induction is a least counterexample (`SmallestNumber`).

`ErasedInOrder`, `OneMaskForAll` and `SupportedAreVectorized` are consequences of
`VecInv`.  None of them is inductive, as they speak of a finished kernel and the walk
is in the middle of one.  `Walk` says of the middle: every value in the map has the
common number of elements, is of a supported kind and has its operands in the map
(`MapInv`); what is on the list to erase is there once (`EraseInv`), operands before
users (`OperandsFirst`, the order `EraseAll` reverses); the calls are for values that
were not met yet, in increasing order, each with the common number and each stored or
part of what is stored; and every store was met or is still to come (`CallInv`).
Increasing calls are what keeps an instruction from being met twice: a call is only
made for an operand, which is an earlier value than all the values being called for.
When the calls have all returned, the map is closed under operands and holds
what is stored, so the kernel was supported and of one width; conversely a
supported kernel never meets an instruction at which the walk gives up, and its seeds
agree (`SupportedAgrees`).  That the map is cleared is used at the start of `Walk`.

`VectorMatchesScalarHolds` compares two executions.  First, items: in a kernel with
uniform conditions, two items that touch nothing the other one writes have values
that differ by the stride times their distance (`ItemsFollow`).  Then a call with
several lanes: by induction over its instructions, each lane has the values of the item
it stands for, and each cell what the item that writes it has left
(`ValueStep`, `MemoryOfStep`), so the call leaves in memory what its items write and
the rest as it was (`CallLeaves`).  Then the loop: after the calls below an index the
memory holds what the items below it write (`LoopLeaves`), where
`ActiveLanes` is what makes this right for a last vector that is not full.  The
scalar kernel is the loop with one lane and no vectorized instruction
(`ScalarIsOneLane`), so both leave the same memory (`LoopsAgree`).  `VecInv` enters as
`CloneIsLoop`: all stores of a clone are vectorized, everything a
vectorized instruction works on is vectorized or a parameter, and the lanes are as many
as the mask has.  The proof does not use `NoUserLeft`: the model executes what stays
scalar with the value of lane 0 also where the program would have lost it, and
`NoUserLeft` keeps the property to the kernels for which that is the program's
behaviour.

**Only model-checked.**  Liveness (`LaunchReturns`, `NestEnds`, `BuildEnds`, and with
them the fairness in `ImplementsInOrderLaunch`) is outside the prover's reach.  Every
other property of a passing run is the subject of a theorem, and the three findings are
violations, shown by TLC.

## 5. Not modelled, and why

- Platform and device queries: functions without state.  Declarations
  (`Constant.h`, `RetCode.h`, `Type.h`).
- clang, LLVM and the JIT: external.  What the generated code does is modelled.
- NULL or zero local sizes, unset arguments, sums of argument sizes that wrap,
  `__local` and `__constant` parameters, `clCreateKernel` before a build: the code
  has no defined behaviour there or says it is not implemented.
- Allocation failure; tear-down of the streams at exit; a temporary file that
  cannot be opened; a host that changes its directory between two calls.
- `clCreateProgramWithBinary`, a stub that returns NULL.
- Kernels that call helper functions which call `get_global_id`.
- The emission of LLVM IR by the wrapper generator; its result is what
  `NDRange` and `ThreadEngine` execute.
- A second host thread: every test has one.

## 6. The plan

Order of work, the most important behaviour first:

1. *Done*: `NDRange`, `WorkGroup`, `InOrderLaunch`, `ThreadEngine` (a launch),
   `RefMap`, `BufferStore`, `MemoryObjects` (buffers), `KernelArgs` (arguments),
   with the type invariants and first safety theorems of each.
   Then `Contexts` (queues and buffers whose contexts come and go), `Programs`,
   `TempFiles` and `KernelVectorizer`.
2. *Done*: the theorems of section 4, which state every safety property the passing
   runs check, the `BufferStore` refinement and the safety half of `InOrderLaunch`.
3. Launches of kernels with dead buffers or unset arguments (`ThreadEngine` with
   `KernelArgs`), and two host threads in `clEnqueueNDRangeKernel`, where `CommonArgs`
   and `ThreadGroup` are shared.
