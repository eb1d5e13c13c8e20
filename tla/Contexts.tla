------------------------------- MODULE Contexts -------------------------------
(***************************************************************************)
(* Contexts and command queues, with the buffers (module MemoryObjects)     *)
(* that are created in a context and transferred through a queue.  Queues   *)
(* and buffers keep the address of their context and nothing keeps the      *)
(* context alive; whether a queue may transfer a buffer is decided by       *)
(* comparing the two addresses (hasSameContext).                            *)
(*                                                                         *)
(* The host passes NULL, or handles it holds a reference to.  Contexts are  *)
(* numbered as they are created, to tell apart those of one address.        *)
(***************************************************************************)
EXTENDS MemoryObjects

CONSTANTS Queues,      \* addresses the allocator has for queues
          DeviceTypes, \* device types contexts are asked for, as sets of bits
          Null,        \* NULL
          MaxContexts  \* bound: contexts created in a behaviour

ASSUME NullAssumption == Null \notin Contexts
ASSUME MaxContextsAssumption == MaxContexts \in Nat

VARIABLES
  ContextMap, \* the _cl_context objects that exist, with their reference counts
  queue,      \* the _cl_command_queue objects that exist
  CQMap,      \* their reference counts
  created,    \* history: contexts created so far
  number,     \* history: which of them each existing context is
  memIn,      \* history: the context each existing buffer was created in
  queueIn     \* history: the context each existing queue was created in

ctxVars == <<ContextMap, created, number>>
queueVars == <<queue, CQMap, queueIn>>
vars == <<memVars, ctxVars, queueVars, memIn>>

(* f with x at p, and f on S only.                                          *)
With(f, p, x) == [q \in DOMAIN f \cup {p} |-> IF q = p THEN x ELSE f[q]]
On(f, S) == [q \in S |-> f[q]]

(* A call that is about no buffer.                                          *)
BuffersKept(code) ==
  /\ ret' = code /\ got' = Nothing
  /\ UNCHANGED <<mem, MemObjMap, heap, writes, held, memIn>>

Init ==
  /\ MemInit
  /\ ContextMap = EmptyMap
  /\ queue = [q \in {} |-> {}] /\ CQMap = EmptyMap
  /\ created = 0 /\ number = EmptyMap
  /\ memIn = EmptyMap /\ queueIn = EmptyMap

-----------------------------------------------------------------------------
(* createContext, for clCreateContext and clCreateContextFromType           *)
CreateContext ==
  /\ created < MaxContexts
  /\ \E c \in Contexts \ DOMAIN ContextMap :
       /\ ContextMap' = Added(ContextMap, c)
       /\ number' = With(number, c, created + 1)
  /\ created' = created + 1
  /\ BuffersKept("CL_SUCCESS")
  /\ UNCHANGED queueVars

CheckDeviceType(T) == IF T \cap {"CPU", "DEFAULT"} = {} THEN "CL_DEVICE_NOT_FOUND" ELSE "CL_SUCCESS"

CreateContextFromType(T) == CheckDeviceType(T) = "CL_SUCCESS" /\ CreateContext

(* No devices, a NULL device list, or a type there is no device of.         *)
CreateContextRefused(T) ==
  /\ BuffersKept("CL_INVALID_VALUE")
     \/ (CheckDeviceType(T) # "CL_SUCCESS" /\ BuffersKept(CheckDeviceType(T)))
  /\ UNCHANGED <<ctxVars, queueVars>>

RetainContext(c) ==
  /\ c \in DOMAIN ContextMap /\ ContextMap[c] < MaxRefs
  /\ ContextMap' = Retained(ContextMap, c)
  /\ BuffersKept("CL_SUCCESS")
  /\ UNCHANGED <<created, number, queueVars>>

ReleaseContext(c) ==
  /\ c \in DOMAIN ContextMap
  /\ ContextMap' = Released(ContextMap, c)
  /\ number' = On(number, DOMAIN ContextMap')
  /\ BuffersKept("CL_SUCCESS")
  /\ UNCHANGED <<created, queueVars>>

ContextRefused(c) ==
  /\ c \notin DOMAIN ContextMap
  /\ BuffersKept("CL_INVALID_CONTEXT")
  /\ UNCHANGED <<ctxVars, queueVars>>

-----------------------------------------------------------------------------
(* clCreateCommandQueue: whether the properties are 0, and the device.      *)
QueueError(plain, c, device) ==
  IF ~plain THEN "CL_INVALID_QUEUE_PROPERTIES"
  ELSE IF c = Null THEN "CL_INVALID_CONTEXT"
  ELSE IF device # "singleton" THEN "CL_INVALID_DEVICE" ELSE "CL_SUCCESS"

\* Mutant: the queue gets the address of any context there is.
CreateQueueAnyContext(c) ==
  /\ \E q \in Queues \ DOMAIN queue, d \in DOMAIN ContextMap :
       /\ queue' = With(queue, q, [Ctx |-> d])
       /\ CQMap' = Added(CQMap, q)
       /\ queueIn' = With(queueIn, q, number[c])
  /\ BuffersKept("CL_SUCCESS")
  /\ UNCHANGED ctxVars

CreateQueue(c) ==
  /\ \E q \in Queues \ DOMAIN queue :
       /\ queue' = With(queue, q, [Ctx |-> c])
       /\ CQMap' = Added(CQMap, q)
       /\ queueIn' = With(queueIn, q, number[c])
  /\ BuffersKept("CL_SUCCESS")
  /\ UNCHANGED ctxVars

CreateCommandQueue(plain, c, device) ==
  IF QueueError(plain, c, device) = "CL_SUCCESS" THEN CreateQueue(c)
  ELSE BuffersKept(QueueError(plain, c, device)) /\ UNCHANGED <<ctxVars, queueVars>>

RetainQueue(q) ==
  /\ q \in DOMAIN CQMap /\ CQMap[q] < MaxRefs
  /\ CQMap' = Retained(CQMap, q)
  /\ BuffersKept("CL_SUCCESS")
  /\ UNCHANGED <<queue, queueIn, ctxVars>>

ReleaseQueue(q) ==
  /\ q \in DOMAIN CQMap
  /\ CQMap' = Released(CQMap, q)
  /\ queue' = On(queue, DOMAIN CQMap')
  /\ queueIn' = On(queueIn, DOMAIN CQMap')
  /\ BuffersKept("CL_SUCCESS")
  /\ UNCHANGED ctxVars

QueueRefused(q) ==
  /\ q \notin DOMAIN CQMap
  /\ BuffersKept("CL_INVALID_COMMAND_QUEUE")
  /\ UNCHANGED <<ctxVars, queueVars>>

-----------------------------------------------------------------------------
(* The calls on buffers                                                     *)
CreateMem(c, F, n) ==
  /\ CreateBuffer(c, F, n) \/ CreateRefused(F, n)
  /\ memIn' = [m \in DOMAIN mem' |-> IF m \in DOMAIN mem THEN memIn[m] ELSE number[c]]
  /\ UNCHANGED <<ctxVars, queueVars>>

BufferRefused == ArgumentRefused /\ UNCHANGED <<ctxVars, queueVars, memIn>>

CountMem(m) ==
  /\ RetainMem(m) \/ ReleaseMem(m) \/ CountRefused(m)
  /\ memIn' = On(memIn, DOMAIN mem')
  /\ UNCHANGED <<ctxVars, queueVars>>

TransferVia(q, m, null, off, n) ==
  /\ AllowWrap \/ off + n < 2^Width
  /\ ReadBuffer(m, queue[q].Ctx, null, off, n) \/ WriteBuffer(m, queue[q].Ctx, null, off, n)
  /\ UNCHANGED <<ctxVars, queueVars, memIn>>

ContextNext ==
  \/ CreateContext
  \/ \E T \in DeviceTypes : CreateContextFromType(T) \/ CreateContextRefused(T)
  \/ \E c \in Contexts : RetainContext(c) \/ ReleaseContext(c) \/ ContextRefused(c)

QueueNext ==
  \/ \E plain \in BOOLEAN, c \in DOMAIN ContextMap \cup {Null}, device \in {"singleton", "NULL"} :
       CreateCommandQueue(plain, c, device)
  \/ \E q \in Queues : RetainQueue(q) \/ ReleaseQueue(q) \/ QueueRefused(q)

BufferNext ==
  \/ \E c \in DOMAIN ContextMap, F \in FlagSets, n \in Sizes : CreateMem(c, F, n)
  \/ \E m \in Mems : CountMem(m)
  \/ BufferRefused
  \/ \E q \in DOMAIN queue, m \in Mems, null \in BOOLEAN, off, n \in SizeT : TransferVia(q, m, null, off, n)

Next == ContextNext \/ QueueNext \/ BufferNext

Spec == Init /\ [][Next]_vars

-----------------------------------------------------------------------------
(* What a transfer of m through q compares (checkReadWriteError).           *)
HasSameContext(q, m) == queue[q].Ctx = mem[m].Ctx

(* The context with this number has not been deleted.                       *)
Alive(i) == \E c \in DOMAIN ContextMap : number[c] = i

Older(i, j) == IF i < j THEN i ELSE j

(* A transfer within one context is never refused as one between contexts,  *)
(* whether the context still exists or not.  One between two contexts is    *)
(* let through only when the older of the two has been deleted, so that the *)
(* younger one could get its address: never while the older one exists.     *)
ContextsKeptApart ==
  \A q \in DOMAIN queue, m \in DOMAIN mem :
    /\ queueIn[q] = memIn[m] => HasSameContext(q, m)
    /\ HasSameContext(q, m) /\ queueIn[q] # memIn[m] => ~Alive(Older(queueIn[q], memIn[m]))
=============================================================================
