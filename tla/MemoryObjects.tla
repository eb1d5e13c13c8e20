---------------------------- MODULE MemoryObjects ----------------------------
(***************************************************************************)
(* Buffers: clCreateBuffer, clEnqueueReadBuffer, clEnqueueWriteBuffer,      *)
(* clRetainMemObject and clReleaseMemObject, with the heap the buffers and  *)
(* the handles come from.  size_t and the addresses have Width bits.        *)
(*                                                                         *)
(* A byte of the heap is a pair: the write it comes from and the offset of  *)
(* the buffer that write meant it for (module BufferStore).                 *)
(***************************************************************************)
EXTENDS Integers, FiniteSets, RefMap

CONSTANTS Mems,      \* addresses the allocator has for cl_mem objects
          Contexts,  \* contexts
          Width,     \* bits of size_t
          Align,     \* alignment of the blocks malloc returns
          Sizes,     \* sizes buffers are created with
          FlagSets,  \* cl_mem_flags buffers are created with, as sets of flags
          AllowWrap, \* whether the host passes Offset + Size past size_t
          MaxWrites, \* bound: accepted writes in a behaviour
          MaxRefs    \* bound: references to an object

ASSUME WidthAssumption == Width \in Nat \ {0}
ASSUME AlignAssumption == Align \in Nat \ {0}
ASSUME SizesAssumption == Sizes \subseteq 0..(2^Width - 1)
ASSUME MaxWritesAssumption == MaxWrites \in Nat
ASSUME MaxRefsAssumption == MaxRefs \in Nat \ {0}
ASSUME AllowWrapAssumption == AllowWrap \in BOOLEAN

SizeT == 0..(2^Width - 1)

Sum(a, b) == (a + b) % 2^Width

Bytes == (0..MaxWrites) \X SizeT

VARIABLES
  mem,       \* the _cl_mem objects that exist
  MemObjMap, \* their reference counts
  heap,      \* all bytes; address 0 is never allocated
  writes,    \* number of accepted writes
  got,       \* the bytes the last call copied to the host, by their offsets
  ret,       \* the code the last call returned
  held       \* history: references the host holds to each handle

memVars == <<mem, MemObjMap, heap, writes, got, ret, held>>

-----------------------------------------------------------------------------
(* checkFlags: no flag means READ_WRITE; exactly one access flag is legal.  *)

Normal(F) == IF F = {} THEN {"READ_WRITE"} ELSE F

AccessFlags == {"READ_WRITE", "READ_ONLY", "WRITE_ONLY"}

FlagsOk(F) == Cardinality(Normal(F) \cap AccessFlags) = 1

Readable(F) == Normal(F) \cap {"READ_WRITE", "READ_ONLY"} # {}
Writable(F) == Normal(F) \cap {"READ_WRITE", "WRITE_ONLY"} # {}

(* malloc: aligned blocks that do not overlap and do not wrap around.        *)
Block(m) == mem[m].Ptr .. (mem[m].Ptr + mem[m].ByteSize - 1)

Free(p, n) ==
  /\ p # 0 /\ p % Align = 0
  /\ p + n <= 2^Width
  /\ \A m \in DOMAIN mem : p..(p + n - 1) \cap Block(m) = {}

-----------------------------------------------------------------------------
Nothing == [i \in {} |-> {}]

MemInit ==
  /\ mem = [m \in {} |-> {}]
  /\ MemObjMap = EmptyMap
  /\ heap = [a \in SizeT |-> <<0, 0>>]
  /\ writes = 0
  /\ got = Nothing
  /\ ret = "CL_SUCCESS"
  /\ held = [m \in Mems |-> 0]

CreateError(F, n) ==
  IF n = 0 THEN "CL_INVALID_BUFFER_SIZE"
  ELSE IF ~FlagsOk(F) THEN "CL_INVALID_VALUE" ELSE "CL_SUCCESS"

CreateBuffer(c, F, n) ==
  /\ CreateError(F, n) = "CL_SUCCESS"
  /\ \E m \in Mems \ DOMAIN mem, p \in SizeT :
       /\ Free(p, n)
       /\ mem' = [q \in DOMAIN mem \cup {m} |->
                    IF q = m THEN [Ctx |-> c, ByteSize |-> n, Ptr |-> p,
                                   Readable |-> Readable(F), Writable |-> Writable(F)]
                             ELSE mem[q]]
       /\ MemObjMap' = Added(MemObjMap, m)
       /\ held' = [held EXCEPT ![m] = 1]
  /\ ret' = "CL_SUCCESS"
  /\ got' = Nothing
  /\ UNCHANGED <<heap, writes>>

CreateRefused(F, n) ==
  /\ CreateError(F, n) # "CL_SUCCESS"
  /\ ret' = CreateError(F, n)
  /\ got' = Nothing
  /\ UNCHANGED <<mem, MemObjMap, heap, writes, held>>

RetainMem(m) ==
  /\ m \in DOMAIN MemObjMap
  /\ MemObjMap[m] < MaxRefs
  /\ MemObjMap' = Retained(MemObjMap, m)
  /\ held' = [held EXCEPT ![m] = @ + 1]
  /\ ret' = "CL_SUCCESS"
  /\ got' = Nothing
  /\ UNCHANGED <<mem, heap, writes>>

(* The last reference deletes the object, which frees its block.            *)
ReleaseMem(m) ==
  /\ m \in DOMAIN MemObjMap
  /\ MemObjMap' = Released(MemObjMap, m)
  /\ mem' = [q \in DOMAIN MemObjMap' |-> mem[q]]
  /\ held' = [held EXCEPT ![m] = @ - 1]
  /\ ret' = "CL_SUCCESS"
  /\ got' = Nothing
  /\ UNCHANGED <<heap, writes>>

(* A handle that is in no map is refused by both.                           *)
CountRefused(m) ==
  /\ m \notin DOMAIN MemObjMap
  /\ ret' = "CL_INVALID_MEM_OBJECT"
  /\ got' = Nothing
  /\ UNCHANGED <<mem, MemObjMap, heap, writes, held>>

-----------------------------------------------------------------------------
(* NULL for the context of a new buffer; for a transfer events, which are   *)
(* not implemented, NULL for the queue, or NULL for the buffer.             *)
ArgumentError(events, noQueue, noBuffer) ==
  IF events THEN "CL_INVALID_EVENT"
  ELSE IF noQueue THEN "CL_INVALID_COMMAND_QUEUE"
  ELSE IF noBuffer THEN "CL_INVALID_MEM_OBJECT" ELSE "CL_SUCCESS"

ArgumentRefused ==
  /\ \/ ret' = "CL_INVALID_CONTEXT"
     \/ \E events, noQueue, noBuffer \in BOOLEAN :
          /\ ArgumentError(events, noQueue, noBuffer) # "CL_SUCCESS"
          /\ ret' = ArgumentError(events, noQueue, noBuffer)
  /\ got' = Nothing
  /\ UNCHANGED <<mem, MemObjMap, heap, writes, held>>

(* A transfer: the context of the queue, whether HostPtr is NULL, and the   *)
(* range.  The contexts are compared first, then come read's or write's     *)
(* own checks.                                                              *)

\* Mutant: the range check leaves out the offset.
TransferErrorNoOffset(m, c, null, allowed, off, n) ==
  IF mem[m].Ctx # c THEN "CL_INVALID_CONTEXT"
  ELSE IF ~allowed THEN "CL_INVALID_OPERATION"
  ELSE IF null \/ n = 0 \/ n > mem[m].ByteSize THEN "CL_INVALID_VALUE"
  ELSE "CL_SUCCESS"

TransferError(m, c, null, allowed, off, n) ==
  IF mem[m].Ctx # c THEN "CL_INVALID_CONTEXT"
  ELSE IF ~allowed THEN "CL_INVALID_OPERATION"
  ELSE IF null \/ n = 0 \/ Sum(off, n) > mem[m].ByteSize THEN "CL_INVALID_VALUE"
  ELSE "CL_SUCCESS"

(* Ptr + Offset + k, for the bytes k of the transfer.                       *)
Address(m, off, k) == Sum(mem[m].Ptr, off + k)

ReadBuffer(m, c, null, off, n) ==
  /\ held[m] > 0
  /\ ret' = TransferError(m, c, null, mem[m].Readable, off, n)
  /\ got' = IF ret' = "CL_SUCCESS"
            THEN [i \in off..(off + n - 1) |-> heap[Address(m, off, i - off)]] ELSE Nothing
  /\ UNCHANGED <<mem, MemObjMap, heap, writes, held>>

WriteBuffer(m, c, null, off, n) ==
  /\ held[m] > 0
  /\ writes < MaxWrites
  /\ ret' = TransferError(m, c, null, mem[m].Writable, off, n)
  /\ IF ret' = "CL_SUCCESS"
     THEN /\ heap' = [a \in SizeT |->
                        IF \E k \in 0..(n - 1) : a = Address(m, off, k)
                        THEN <<writes + 1, off + CHOOSE k \in 0..(n - 1) : a = Address(m, off, k)>>
                        ELSE heap[a]]
          /\ writes' = writes + 1
     ELSE UNCHANGED <<heap, writes>>
  /\ got' = Nothing
  /\ UNCHANGED <<mem, MemObjMap, held>>

Transfer(m) ==
  \E c \in Contexts, null \in BOOLEAN, off, n \in SizeT :
    /\ AllowWrap \/ off + n < 2^Width
    /\ ReadBuffer(m, c, null, off, n) \/ WriteBuffer(m, c, null, off, n)

MemNext ==
  \/ \E c \in Contexts, F \in FlagSets, n \in Sizes : CreateBuffer(c, F, n) \/ CreateRefused(F, n)
  \/ \E m \in Mems : RetainMem(m) \/ ReleaseMem(m) \/ CountRefused(m) \/ Transfer(m)
  \/ ArgumentRefused

MemSpec == MemInit /\ [][MemNext]_memVars

-----------------------------------------------------------------------------
BufferType == [Ctx : Contexts, ByteSize : Nat, Ptr : SizeT, Readable : BOOLEAN, Writable : BOOLEAN]

(* A buffer the host holds a reference to exists and its block belongs to   *)
(* no other buffer; one it has given up entirely is gone (no leak).         *)
HeldIsLive ==
  /\ \A m \in Mems : held[m] > 0 <=> m \in DOMAIN mem
  /\ \A m, q \in DOMAIN mem : m # q => Block(m) \cap Block(q) = {}

(* A transfer that reaches past the end of its buffer is refused.           *)
OutOfRangeRefused ==
  [][\A m \in DOMAIN mem, c \in Contexts, off, n \in SizeT :
       /\ ReadBuffer(m, c, FALSE, off, n) \/ WriteBuffer(m, c, FALSE, off, n)
       /\ ret' = "CL_SUCCESS"
       => off + n <= mem[m].ByteSize]_memVars

(* The buffers are the independent arrays of BufferStore, whatever blocks   *)
(* and handles the allocator hands out and reuses.                          *)
Contents == [m \in DOMAIN mem |-> [i \in 0..(mem[m].ByteSize - 1) |-> heap[mem[m].Ptr + i]]]

Store == INSTANCE BufferStore WITH Sizes <- Sizes \ {0}, contents <- Contents

ImplementsBufferStore == Store!Spec
=============================================================================
