---------------------------- MODULE ContextsProofs ----------------------------
(***************************************************************************)
(* Contexts, queues and buffers: which transfers between contexts are       *)
(* refused, for every set of addresses and any number of contexts.          *)
(***************************************************************************)
EXTENDS Contexts, MemoryObjectsProofs

(* The inductive invariant.  Numbers tell the existing contexts apart, and  *)
(* while a buffer's or a queue's own context exists, it is at the address   *)
(* the object carries.                                                      *)
CtxType ==
  /\ created \in Nat
  /\ ContextMap \in [DOMAIN ContextMap -> Nat \ {0}]
  /\ number \in [DOMAIN ContextMap -> 1..created]
  /\ memIn \in [DOMAIN mem -> 1..created]
  /\ CQMap \in [DOMAIN queue -> Nat \ {0}]
  /\ queue \in [DOMAIN queue -> [Ctx : Contexts]]
  /\ queueIn \in [DOMAIN queue -> 1..created]
  /\ DOMAIN ContextMap \subseteq Contexts

Numbered == \A c, d \in DOMAIN ContextMap : number[c] = number[d] => c = d

MemAtContext ==
  \A m \in DOMAIN mem, c \in DOMAIN ContextMap : number[c] = memIn[m] => mem[m].Ctx = c

QueueAtContext ==
  \A q \in DOMAIN queue, c \in DOMAIN ContextMap : number[c] = queueIn[q] => queue[q].Ctx = c

(* What carries the address of an existing context was created in that      *)
(* context, or in an older one that had the address before.                 *)
MemOfOlder ==
  \A m \in DOMAIN mem, c \in DOMAIN ContextMap : mem[m].Ctx = c => memIn[m] <= number[c]

QueueOfOlder ==
  \A q \in DOMAIN queue, c \in DOMAIN ContextMap : queue[q].Ctx = c => queueIn[q] <= number[c]

OneAddress ==
  \A q \in DOMAIN queue, m \in DOMAIN mem : queueIn[q] = memIn[m] => HasSameContext(q, m)

Addressed == MemAtContext /\ QueueAtContext /\ MemOfOlder /\ QueueOfOlder /\ OneAddress

CtxInv == CtxType /\ Numbered /\ Addressed

Inv == MemInv /\ CtxInv

LEMMA InvInit == Init => Inv
<1> SUFFICES ASSUME Init PROVE Inv
  OBVIOUS
<1>1. MemInv
  BY MemInvInit DEF Init
<1>2. CtxInv
  BY DEF Init, MemInit, EmptyMap, CtxInv, CtxType, Numbered, Addressed, MemAtContext, QueueAtContext,
     MemOfOlder, QueueOfOlder, OneAddress, HasSameContext
<1> QED BY <1>1, <1>2 DEF Inv

-----------------------------------------------------------------------------
(* Calls that change no object.                                             *)
LEMMA OtherKeepsInv ==
  ASSUME Inv, UNCHANGED <<mem, MemObjMap, held, memIn, ctxVars, queueVars>>
  PROVE  Inv'
<1>1. MemInv'
  BY OtherKeepsMemInv DEF Inv
<1>2. CtxInv'
  BY DEF Inv, CtxInv, CtxType, Numbered, Addressed, MemAtContext, QueueAtContext,
     MemOfOlder, QueueOfOlder, OneAddress, HasSameContext, ctxVars, queueVars
<1> QED BY <1>1, <1>2 DEF Inv

(* Calls on contexts and queues leave the buffers alone.                    *)
LEMMA BuffersKeptKeepsMemInv ==
  ASSUME Inv, NEW code, BuffersKept(code)
  PROVE  MemInv' /\ UNCHANGED <<mem, memIn>>
BY OtherKeepsMemInv DEF Inv, BuffersKept

LEMMA CreateContextKeeps ==
  ASSUME Inv, CreateContext
  PROVE  Inv'
<1>1. PICK c \in Contexts \ DOMAIN ContextMap :
        ContextMap' = Added(ContextMap, c) /\ number' = With(number, c, created + 1)
  BY DEF CreateContext
<1>2. /\ created' = created + 1
      /\ UNCHANGED <<queue, CQMap, queueIn>>
  BY DEF CreateContext, queueVars
<1>3. MemInv' /\ UNCHANGED <<mem, memIn>>
  BY BuffersKeptKeepsMemInv DEF CreateContext
<1>4. /\ DOMAIN ContextMap' = DOMAIN ContextMap \cup {c}
      /\ ContextMap' \in [DOMAIN ContextMap' -> Nat \ {0}]
  BY <1>1 DEF Added, Inv, CtxInv, CtxType
<1>5. /\ DOMAIN number' = DOMAIN ContextMap \cup {c}
      /\ number'[c] = created + 1
      /\ \A d \in DOMAIN ContextMap : number'[d] = number[d] /\ number[d] \in 1..created
  BY <1>1 DEF With, Inv, CtxInv, CtxType
<1>6. CtxType'
  <2>1. number' \in [DOMAIN ContextMap' -> 1..created']
    BY <1>1, <1>2, <1>4, <1>5 DEF With, Inv, CtxInv, CtxType
  <2> QED BY <1>1, <1>2, <1>3, <1>4, <2>1 DEF Inv, CtxInv, CtxType
<1>7. Numbered'
  BY <1>4, <1>5 DEF Inv, CtxInv, CtxType, Numbered
<1>8. MemAtContext'
  BY <1>3, <1>4, <1>5 DEF Inv, CtxInv, CtxType, Addressed, MemAtContext
<1>9. QueueAtContext'
  BY <1>2, <1>4, <1>5 DEF Inv, CtxInv, CtxType, Addressed, QueueAtContext
<1>10. MemOfOlder'
  BY <1>3, <1>4, <1>5 DEF Inv, CtxInv, CtxType, Addressed, MemOfOlder
<1>11. QueueOfOlder'
  BY <1>2, <1>4, <1>5 DEF Inv, CtxInv, CtxType, Addressed, QueueOfOlder
<1>12. OneAddress'
  BY <1>2, <1>3 DEF Inv, CtxInv, Addressed, OneAddress, HasSameContext
<1> QED BY <1>3, <1>6, <1>7, <1>8, <1>9, <1>10, <1>11, <1>12 DEF Inv, CtxInv, Addressed

LEMMA RetainContextKeeps ==
  ASSUME Inv, NEW c \in Contexts, RetainContext(c)
  PROVE  Inv'
<1>1. MemInv' /\ UNCHANGED <<mem, memIn>>
  BY BuffersKeptKeepsMemInv DEF RetainContext
<1>2. UNCHANGED <<created, number, queue, CQMap, queueIn>>
  BY DEF RetainContext, queueVars
<1>3. DOMAIN ContextMap' = DOMAIN ContextMap /\ ContextMap' \in [DOMAIN ContextMap -> Nat \ {0}]
  BY DEF RetainContext, Retained, Inv, CtxInv, CtxType
<1>4. CtxInv'
  BY <1>1, <1>2, <1>3 DEF Inv, CtxInv, CtxType, Numbered, Addressed, MemAtContext, QueueAtContext,
     MemOfOlder, QueueOfOlder, OneAddress, HasSameContext
<1> QED BY <1>1, <1>4 DEF Inv

LEMMA ReleaseContextKeeps ==
  ASSUME Inv, NEW c \in Contexts, ReleaseContext(c)
  PROVE  Inv'
<1>1. MemInv' /\ UNCHANGED <<mem, memIn>>
  BY BuffersKeptKeepsMemInv DEF ReleaseContext
<1>2. UNCHANGED <<created, queue, CQMap, queueIn>>
  BY DEF ReleaseContext, queueVars
<1>3. /\ DOMAIN ContextMap' \subseteq DOMAIN ContextMap
      /\ ContextMap' \in [DOMAIN ContextMap' -> Nat \ {0}]
  BY DEF ReleaseContext, Released, IsLast, Inv, CtxInv, CtxType
<1>4. /\ number' \in [DOMAIN ContextMap' -> 1..created']
      /\ \A d \in DOMAIN ContextMap' : number'[d] = number[d]
  BY <1>2, <1>3 DEF ReleaseContext, On, Inv, CtxInv, CtxType
<1>5. CtxInv'
  BY <1>1, <1>2, <1>3, <1>4 DEF Inv, CtxInv, CtxType, Numbered, Addressed, MemAtContext, QueueAtContext,
     MemOfOlder, QueueOfOlder, OneAddress, HasSameContext
<1> QED BY <1>1, <1>5 DEF Inv

-----------------------------------------------------------------------------
LEMMA CreateQueueKeeps ==
  ASSUME Inv, NEW c \in DOMAIN ContextMap, CreateQueue(c)
  PROVE  Inv'
<1>1. PICK q \in Queues \ DOMAIN queue :
        /\ queue' = With(queue, q, [Ctx |-> c])
        /\ CQMap' = Added(CQMap, q)
        /\ queueIn' = With(queueIn, q, number[c])
  BY DEF CreateQueue
<1>2. MemInv' /\ UNCHANGED <<mem, memIn>>
  BY BuffersKeptKeepsMemInv DEF CreateQueue
<1>3. UNCHANGED <<ContextMap, created, number>>
  BY DEF CreateQueue, ctxVars
<1>4. /\ DOMAIN queue' = DOMAIN queue \cup {q}
      /\ queue'[q] = [Ctx |-> c]
      /\ \A r \in DOMAIN queue : queue'[r] = queue[r]
      /\ queue' \in [DOMAIN queue' -> [Ctx : Contexts]]
  BY <1>1 DEF With, Inv, CtxInv, CtxType
<1>5. /\ queueIn' \in [DOMAIN queue' -> 1..created]
      /\ queueIn'[q] = number[c]
      /\ \A r \in DOMAIN queue : queueIn'[r] = queueIn[r]
  BY <1>1, <1>4 DEF With, Inv, CtxInv, CtxType
<1>6. CQMap' \in [DOMAIN queue' -> Nat \ {0}]
  BY <1>1, <1>4 DEF Added, Inv, CtxInv, CtxType
<1>7. CtxType'
  BY <1>2, <1>3, <1>4, <1>5, <1>6 DEF Inv, CtxInv, CtxType
<1>8. Numbered' /\ MemAtContext' /\ MemOfOlder'
  BY <1>2, <1>3 DEF Inv, CtxInv, Numbered, Addressed, MemAtContext, MemOfOlder
<1>9. QueueAtContext' /\ QueueOfOlder'
  BY <1>3, <1>4, <1>5 DEF Inv, CtxInv, CtxType, Numbered, Addressed, QueueAtContext, QueueOfOlder
<1>10. OneAddress'
  BY <1>2, <1>4, <1>5 DEF Inv, CtxInv, Addressed, MemAtContext, OneAddress, HasSameContext
<1> QED BY <1>2, <1>7, <1>8, <1>9, <1>10 DEF Inv, CtxInv, Addressed

LEMMA RetainQueueKeeps ==
  ASSUME Inv, NEW q \in Queues, RetainQueue(q)
  PROVE  Inv'
<1>1. MemInv' /\ UNCHANGED <<mem, memIn>>
  BY BuffersKeptKeepsMemInv DEF RetainQueue
<1>2. UNCHANGED <<ContextMap, created, number, queue, queueIn>>
  BY DEF RetainQueue, ctxVars
<1>3. CQMap' \in [DOMAIN queue -> Nat \ {0}]
  BY DEF RetainQueue, Retained, Inv, CtxInv, CtxType
<1>4. CtxInv'
  BY <1>1, <1>2, <1>3 DEF Inv, CtxInv, CtxType, Numbered, Addressed, MemAtContext, QueueAtContext,
     MemOfOlder, QueueOfOlder, OneAddress, HasSameContext
<1> QED BY <1>1, <1>4 DEF Inv

LEMMA ReleaseQueueKeeps ==
  ASSUME Inv, NEW q \in Queues, ReleaseQueue(q)
  PROVE  Inv'
<1>1. MemInv' /\ UNCHANGED <<mem, memIn>>
  BY BuffersKeptKeepsMemInv DEF ReleaseQueue
<1>2. UNCHANGED <<ContextMap, created, number>>
  BY DEF ReleaseQueue, ctxVars
<1>3. /\ DOMAIN CQMap' \subseteq DOMAIN queue
      /\ CQMap' \in [DOMAIN CQMap' -> Nat \ {0}]
  BY SMTT(30) DEF ReleaseQueue, Released, IsLast, Inv, CtxInv, CtxType
<1>4. /\ queue' \in [DOMAIN CQMap' -> [Ctx : Contexts]]
      /\ queueIn' \in [DOMAIN CQMap' -> 1..created]
      /\ \A r \in DOMAIN CQMap' : queue'[r] = queue[r] /\ queueIn'[r] = queueIn[r]
  BY <1>3 DEF ReleaseQueue, On, Inv, CtxInv, CtxType
<1>5. CtxInv'
  <2>1. CtxType' /\ Numbered'
    BY <1>1, <1>2, <1>3, <1>4 DEF Inv, CtxInv, CtxType, Numbered
  <2>2. MemAtContext' /\ MemOfOlder'
    BY <1>1, <1>2, <1>3, <1>4 DEF Inv, CtxInv, Addressed, MemAtContext, MemOfOlder
  <2>3. QueueAtContext' /\ QueueOfOlder'
    BY <1>1, <1>2, <1>3, <1>4 DEF Inv, CtxInv, Addressed, QueueAtContext, QueueOfOlder
  <2>4. OneAddress'
    BY <1>1, <1>2, <1>3, <1>4 DEF Inv, CtxInv, Addressed, OneAddress, HasSameContext
  <2> QED BY <2>1, <2>2, <2>3, <2>4 DEF CtxInv, Addressed
<1> QED BY <1>1, <1>5 DEF Inv

-----------------------------------------------------------------------------
LEMMA CreateMemKeeps ==
  ASSUME Inv, NEW c \in DOMAIN ContextMap, NEW F \in FlagSets, NEW n \in Sizes, CreateMem(c, F, n)
  PROVE  Inv'
<1>1. c \in Contexts
  BY DEF Inv, CtxInv, CtxType
<1>2. MemInv'
  BY <1>1, CreateKeepsMemInv, OtherKeepsMemInv DEF CreateMem, CreateRefused, Inv
<1>3. UNCHANGED <<ContextMap, created, number, queue, CQMap, queueIn>>
  BY DEF CreateMem, ctxVars, queueVars
<1>4. /\ DOMAIN mem \subseteq DOMAIN mem'
      /\ \A m \in DOMAIN mem : mem'[m] = mem[m]
      /\ \A m \in DOMAIN mem' \ DOMAIN mem : mem'[m].Ctx = c
  <2>1. CASE CreateBuffer(c, F, n)
    <3>1. PICK a \in Mems \ DOMAIN mem, p \in SizeT :
            mem' = [q \in DOMAIN mem \cup {a} |->
                      IF q = a THEN [Ctx |-> c, ByteSize |-> n, Ptr |-> p,
                                     Readable |-> Readable(F), Writable |-> Writable(F)]
                               ELSE mem[q]]
      BY <2>1 DEF CreateBuffer
    <3> QED BY <3>1
  <2>2. CASE CreateRefused(F, n)
    BY <2>2 DEF CreateRefused
  <2> QED BY <2>1, <2>2 DEF CreateMem
<1>5. memIn' = [m \in DOMAIN mem' |-> IF m \in DOMAIN mem THEN memIn[m] ELSE number[c]]
  BY DEF CreateMem
<1>6. memIn' \in [DOMAIN mem' -> 1..created]
  BY <1>5 DEF Inv, CtxInv, CtxType
<1>7. CtxType'
  BY <1>3, <1>6 DEF Inv, CtxInv, CtxType
<1>8. Numbered' /\ QueueAtContext' /\ QueueOfOlder'
  BY <1>3 DEF Inv, CtxInv, Numbered, Addressed, QueueAtContext, QueueOfOlder
<1>9. MemAtContext' /\ MemOfOlder'
  BY <1>3, <1>4, <1>5 DEF Inv, CtxInv, CtxType, Numbered, Addressed, MemAtContext, MemOfOlder
<1>10. OneAddress'
  BY <1>3, <1>4, <1>5 DEF Inv, CtxInv, Addressed, QueueAtContext, OneAddress, HasSameContext
<1> QED BY <1>2, <1>7, <1>8, <1>9, <1>10 DEF Inv, CtxInv, Addressed

LEMMA CountMemKeeps ==
  ASSUME Inv, NEW m \in Mems, CountMem(m)
  PROVE  Inv'
<1>1. MemInv'
  BY RetainKeepsMemInv, ReleaseKeepsMemInv, OtherKeepsMemInv DEF CountMem, CountRefused, Inv
<1>2. UNCHANGED <<ContextMap, created, number, queue, CQMap, queueIn>>
  BY DEF CountMem, ctxVars, queueVars
<1>3. DOMAIN mem' \subseteq DOMAIN mem /\ \A q \in DOMAIN mem' : mem'[q] = mem[q]
  <2>1. CASE RetainMem(m) \/ CountRefused(m)
    BY <2>1 DEF RetainMem, CountRefused
  <2>2. CASE ReleaseMem(m)
    BY <2>2 DEF ReleaseMem, Released, IsLast, Inv, MemInv, MemType
  <2> QED BY <2>1, <2>2 DEF CountMem
<1>4. /\ memIn' \in [DOMAIN mem' -> 1..created]
      /\ \A q \in DOMAIN mem' : memIn'[q] = memIn[q]
  BY <1>3 DEF CountMem, On, Inv, CtxInv, CtxType
<1>5. CtxInv'
  <2>1. CtxType' /\ Numbered'
    BY <1>2, <1>3, <1>4 DEF Inv, CtxInv, CtxType, Numbered
  <2>2. MemAtContext' /\ MemOfOlder'
    BY <1>2, <1>3, <1>4 DEF Inv, CtxInv, Addressed, MemAtContext, MemOfOlder
  <2>3. QueueAtContext' /\ QueueOfOlder'
    BY <1>2, <1>3, <1>4 DEF Inv, CtxInv, Addressed, QueueAtContext, QueueOfOlder
  <2>4. OneAddress'
    BY <1>2, <1>3, <1>4 DEF Inv, CtxInv, Addressed, OneAddress, HasSameContext
  <2> QED BY <2>1, <2>2, <2>3, <2>4 DEF CtxInv, Addressed
<1> QED BY <1>1, <1>5 DEF Inv

-----------------------------------------------------------------------------
LEMMA InvStep == Inv /\ [Next]_vars => Inv'
<1> SUFFICES ASSUME Inv, [Next]_vars PROVE Inv'
  OBVIOUS
<1>1. CASE ContextNext
  <2>1. ASSUME NEW T \in DeviceTypes, CreateContextRefused(T) PROVE Inv'
    BY <2>1, OtherKeepsInv DEF CreateContextRefused, BuffersKept
  <2>2. ASSUME NEW c \in Contexts, ContextRefused(c) PROVE Inv'
    BY <2>2, OtherKeepsInv DEF ContextRefused, BuffersKept
  <2> QED BY <1>1, <2>1, <2>2, CreateContextKeeps, RetainContextKeeps, ReleaseContextKeeps
          DEF ContextNext, CreateContextFromType
<1>2. CASE QueueNext
  <2>1. ASSUME NEW plain \in BOOLEAN, NEW c \in DOMAIN ContextMap \cup {Null},
               NEW device \in {"singleton", "NULL"}, CreateCommandQueue(plain, c, device)
        PROVE  Inv'
    <3>1. CASE QueueError(plain, c, device) = "CL_SUCCESS"
      <4>1. c # Null
        BY <3>1 DEF QueueError
      <4> QED BY <2>1, <3>1, <4>1, CreateQueueKeeps DEF CreateCommandQueue
    <3>2. CASE QueueError(plain, c, device) # "CL_SUCCESS"
      BY <2>1, <3>2, OtherKeepsInv DEF CreateCommandQueue, BuffersKept
    <3> QED BY <3>1, <3>2
  <2>2. ASSUME NEW q \in Queues, QueueRefused(q) PROVE Inv'
    BY <2>2, OtherKeepsInv DEF QueueRefused, BuffersKept
  <2> QED BY <1>2, <2>1, <2>2, RetainQueueKeeps, ReleaseQueueKeeps DEF QueueNext
<1>3. CASE BufferNext
  <2>1. ASSUME NEW q \in DOMAIN queue, NEW m \in Mems, NEW null \in BOOLEAN,
               NEW off \in SizeT, NEW n \in SizeT, TransferVia(q, m, null, off, n)
        PROVE  Inv'
    BY <2>1, OtherKeepsInv DEF TransferVia, ReadBuffer, WriteBuffer
  <2>2. CASE BufferRefused
    BY <2>2, OtherKeepsInv DEF BufferRefused, ArgumentRefused
  <2> QED BY <1>3, <2>1, <2>2, CreateMemKeeps, CountMemKeeps DEF BufferNext
<1>4. CASE UNCHANGED vars
  BY <1>4, OtherKeepsInv DEF vars, memVars
<1> QED BY <1>1, <1>2, <1>3, <1>4 DEF Next

(* A transfer within one context is let through, and one between two only   *)
(* when the older of them has been deleted: hasSameContext (Util.h) decides *)
(* it by comparing addresses, and addresses of deleted contexts are used    *)
(* again.                                                                   *)
THEOREM ContextsStayApart == Spec => []ContextsKeptApart
<1>1. Inv => ContextsKeptApart
  <2> SUFFICES ASSUME Inv, NEW q \in DOMAIN queue, NEW m \in DOMAIN mem
               PROVE  /\ queueIn[q] = memIn[m] => HasSameContext(q, m)
                      /\ HasSameContext(q, m) /\ queueIn[q] # memIn[m]
                           => ~Alive(Older(queueIn[q], memIn[m]))
    BY DEF ContextsKeptApart
  <2>1. queueIn[q] = memIn[m] => HasSameContext(q, m)
    BY DEF Inv, CtxInv, Addressed, OneAddress
  <2>2. ASSUME HasSameContext(q, m), queueIn[q] # memIn[m],
               NEW c \in DOMAIN ContextMap, number[c] = Older(queueIn[q], memIn[m])
        PROVE  FALSE
    <3>1. queueIn[q] \in Int /\ memIn[m] \in Int
      BY DEF Inv, CtxInv, CtxType
    <3>2. CASE queueIn[q] < memIn[m]
      <4>1. number[c] = queueIn[q] /\ queue[q].Ctx = c
        BY <2>2, <3>2 DEF Older, Inv, CtxInv, Addressed, QueueAtContext
      <4>2. memIn[m] <= number[c]
        BY <2>2, <4>1 DEF HasSameContext, Inv, CtxInv, Addressed, MemOfOlder
      <4> QED BY <3>1, <3>2, <4>1, <4>2
    <3>3. CASE ~(queueIn[q] < memIn[m])
      <4>1. number[c] = memIn[m] /\ mem[m].Ctx = c
        BY <2>2, <3>3 DEF Older, Inv, CtxInv, Addressed, MemAtContext
      <4>2. queueIn[q] <= number[c]
        BY <2>2, <4>1 DEF HasSameContext, Inv, CtxInv, Addressed, QueueOfOlder
      <4> QED BY <2>2, <3>1, <3>3, <4>1, <4>2
    <3> QED BY <3>2, <3>3
  <2> QED BY <2>1, <2>2 DEF Alive
<1> QED BY <1>1, InvInit, InvStep, PTL DEF Spec
=============================================================================
