------------------------- MODULE MemoryObjectsProofs -------------------------
(***************************************************************************)
(* Reference counts and blocks of buffers, for every set of handles and     *)
(* sizes and every width of size_t.                                         *)
(***************************************************************************)
EXTENDS MemoryObjects, DataProofs

(* The inductive invariant: a count is the number of references the host    *)
(* holds, and the blocks of the buffers that exist are disjoint.            *)
MemType ==
  /\ mem \in [DOMAIN mem -> BufferType] /\ DOMAIN mem \subseteq Mems
  /\ MemObjMap \in [DOMAIN mem -> Nat \ {0}]
  /\ held \in [Mems -> Nat]

CountsHeld == \A m \in Mems : held[m] = IF m \in DOMAIN mem THEN MemObjMap[m] ELSE 0

BlocksApart == \A m, q \in DOMAIN mem : m # q => Block(m) \cap Block(q) = {}

MemInv == MemType /\ CountsHeld /\ BlocksApart

LEMMA MemInvInit == MemInit => MemInv
BY DEF MemInit, MemInv, MemType, CountsHeld, BlocksApart, EmptyMap, Nothing

LEMMA CreateKeepsMemInv ==
  ASSUME MemInv, NEW c \in Contexts, NEW F \in FlagSets, NEW n \in Sizes, CreateBuffer(c, F, n)
  PROVE  MemInv'
<1>1. PICK m \in Mems \ DOMAIN mem, p \in SizeT :
        /\ Free(p, n)
        /\ mem' = [q \in DOMAIN mem \cup {m} |->
                     IF q = m THEN [Ctx |-> c, ByteSize |-> n, Ptr |-> p,
                                    Readable |-> Readable(F), Writable |-> Writable(F)]
                              ELSE mem[q]]
        /\ MemObjMap' = Added(MemObjMap, m)
        /\ held' = [held EXCEPT ![m] = 1]
  BY DEF CreateBuffer
<1>2. n \in Nat
  BY SizesAssumption
<1>3. [Ctx |-> c, ByteSize |-> n, Ptr |-> p,
       Readable |-> Readable(F), Writable |-> Writable(F)] \in BufferType
  BY <1>2 DEF BufferType, Readable, Writable
<1>4. DOMAIN mem' = DOMAIN mem \cup {m}
  BY <1>1
<1>5. MemType'
  BY <1>1, <1>3, <1>4 DEF MemInv, MemType, Added
<1>6. CountsHeld'
  BY <1>1, <1>4 DEF MemInv, MemType, CountsHeld, Added
<1>7. /\ Block(m)' = p..(p + n - 1)
      /\ \A q \in DOMAIN mem : Block(q)' = Block(q)
  BY <1>1 DEF Block
<1>8. BlocksApart'
  <2>1. SUFFICES ASSUME NEW a \in DOMAIN mem', NEW b \in DOMAIN mem', a # b
                 PROVE  Block(a)' \cap Block(b)' = {}
    BY DEF BlocksApart
  <2>2. CASE a = m
    BY <1>1, <1>4, <1>7, <2>1, <2>2 DEF Free
  <2>3. CASE b = m
    BY <1>1, <1>4, <1>7, <2>1, <2>3 DEF Free
  <2>4. CASE a # m /\ b # m
    <3>1. a \in DOMAIN mem /\ b \in DOMAIN mem
      BY <1>4, <2>4
    <3> QED BY <1>7, <2>1, <3>1 DEF MemInv, BlocksApart
  <2> QED BY <2>2, <2>3, <2>4
<1> QED BY <1>5, <1>6, <1>8 DEF MemInv

LEMMA RetainKeepsMemInv ==
  ASSUME MemInv, NEW m \in Mems, RetainMem(m)
  PROVE  MemInv'
<1>1. MemType' /\ CountsHeld'
  BY DEF MemInv, MemType, CountsHeld, RetainMem, Retained
<1>2. \A q \in DOMAIN mem : Block(q)' = Block(q)
  BY DEF Block, RetainMem
<1>3. BlocksApart'
  BY <1>2 DEF MemInv, BlocksApart, RetainMem
<1> QED BY <1>1, <1>3 DEF MemInv

LEMMA ReleaseKeepsMemInv ==
  ASSUME MemInv, NEW m \in Mems, ReleaseMem(m)
  PROVE  MemInv'
<1> USE DEF MemInv, MemType
<1>1. m \in DOMAIN mem /\ DOMAIN MemObjMap = DOMAIN mem
  BY DEF ReleaseMem
<1>2. /\ MemObjMap[m] = 1 => /\ DOMAIN MemObjMap' = DOMAIN mem \ {m}
                             /\ MemObjMap' \in [DOMAIN mem \ {m} -> Nat \ {0}]
      /\ MemObjMap[m] # 1 => /\ DOMAIN MemObjMap' = DOMAIN mem
                             /\ MemObjMap' \in [DOMAIN mem -> Nat \ {0}]
                             /\ MemObjMap'[m] = MemObjMap[m] - 1
      /\ \A q \in DOMAIN mem \ {m} : MemObjMap'[q] = MemObjMap[q]
  <2>1. MemObjMap' = Released(MemObjMap, m) /\ MemObjMap \in [DOMAIN mem -> Nat \ {0}]
    BY DEF ReleaseMem
  <2> HIDE DEF MemInv, MemType
  <2> QED BY <1>1, <2>1, ReleasedFacts, SMTT(30)
<1>3. /\ DOMAIN mem' = DOMAIN MemObjMap'
      /\ \A q \in DOMAIN mem' : q \in DOMAIN mem /\ mem'[q] = mem[q]
      /\ held' = [held EXCEPT ![m] = @ - 1]
      /\ mem' = [q \in DOMAIN MemObjMap' |-> mem[q]]
  BY <1>1, <1>2 DEF ReleaseMem
<1>4. held[m] = MemObjMap[m] /\ held[m] \in Nat \ {0}
  BY <1>1 DEF CountsHeld
<1>5. MemType'
  BY <1>1, <1>2, <1>3, <1>4
<1>6. CountsHeld'
  BY <1>1, <1>2, <1>3, <1>4 DEF CountsHeld
<1>7. \A q \in DOMAIN mem' : Block(q)' = Block(q)
  BY <1>3 DEF Block
<1>8. BlocksApart'
  BY <1>3, <1>7 DEF BlocksApart
<1> QED BY <1>5, <1>6, <1>8

LEMMA OtherKeepsMemInv ==
  ASSUME MemInv, UNCHANGED <<mem, MemObjMap, held>>
  PROVE  MemInv'
<1>1. \A q \in DOMAIN mem : Block(q)' = Block(q)
  BY DEF Block
<1> QED BY <1>1 DEF MemInv, MemType, CountsHeld, BlocksApart

LEMMA MemInvStep == MemInv /\ [MemNext]_memVars => MemInv'
<1> SUFFICES ASSUME MemInv, [MemNext]_memVars PROVE MemInv'
  OBVIOUS
<1>1. ASSUME NEW c \in Contexts, NEW F \in FlagSets, NEW n \in Sizes,
             CreateBuffer(c, F, n) \/ CreateRefused(F, n)
      PROVE  MemInv'
  BY <1>1, CreateKeepsMemInv, OtherKeepsMemInv DEF CreateRefused
<1>2. ASSUME NEW m \in Mems, RetainMem(m) PROVE MemInv'
  BY <1>2, RetainKeepsMemInv
<1>3. ASSUME NEW m \in Mems, ReleaseMem(m) PROVE MemInv'
  BY <1>3, ReleaseKeepsMemInv
<1>4. ASSUME NEW m \in Mems, CountRefused(m) PROVE MemInv'
  BY <1>4, OtherKeepsMemInv DEF CountRefused
<1>5. ASSUME NEW m \in Mems, Transfer(m) PROVE MemInv'
  BY <1>5, OtherKeepsMemInv DEF Transfer, ReadBuffer, WriteBuffer
<1>6. CASE ArgumentRefused
  BY <1>6, OtherKeepsMemInv DEF ArgumentRefused
<1>7. CASE UNCHANGED memVars
  BY <1>7, OtherKeepsMemInv DEF memVars
<1> QED BY <1>1, <1>2, <1>3, <1>4, <1>5, <1>6, <1>7 DEF MemNext

(* A buffer the host still holds exists, with a block of its own, and one   *)
(* it has given up is gone, under every sequence of calls and whatever the  *)
(* allocator reuses (retain and release of Util.h, MemoryObject.cpp).       *)
THEOREM HeldBuffersAreLive == MemSpec => []HeldIsLive
<1>1. MemInv => HeldIsLive
  BY DEF MemInv, MemType, CountsHeld, BlocksApart, HeldIsLive
<1> QED BY <1>1, MemInvInit, MemInvStep, PTL DEF MemSpec

-----------------------------------------------------------------------------
(* What the refinement of BufferStore needs besides MemInv: every byte is   *)
(* one, and no block is empty or reaches past the end of the heap.          *)
HeapType == heap \in [SizeT -> Bytes] /\ writes \in 0..MaxWrites

BlocksInRange ==
  \A m \in DOMAIN mem : /\ mem[m].ByteSize \in Sizes \ {0}
                        /\ mem[m].Ptr + mem[m].ByteSize <= 2^Width

StoreInv == MemInv /\ HeapType /\ BlocksInRange

(* 2^Width, as the provers know it: a number above every size_t.            *)
LEMMA SizeTFacts ==
  ASSUME NEW a \in SizeT
  PROVE  a \in Nat /\ 2^Width \in Nat \ {0} /\ a < 2^Width /\ 0 \in SizeT
<1>1. 2^Width \in Int
  BY WidthAssumption
<1> QED BY <1>1 DEF SizeT

LEMMA BytesFacts ==
  ASSUME NEW w \in 0..MaxWrites, NEW i \in SizeT
  PROVE  <<w, i>> \in Bytes
BY DEF Bytes

LEMMA SumBelow ==
  ASSUME NEW a \in Nat, NEW b \in Nat, a + b < 2^Width
  PROVE  Sum(a, b) = a + b
<1>1. 2^Width \in Int
  BY WidthAssumption
<1> QED BY <1>1 DEF Sum

(* The bytes of a block are addresses, each with its offset.                *)
LEMMA BlockFacts ==
  ASSUME MemInv, BlocksInRange, NEW m \in DOMAIN mem
  PROVE  /\ mem[m].ByteSize \in Nat \ {0} /\ mem[m].Ptr \in Nat
         /\ mem[m].ByteSize <= 2^Width - mem[m].Ptr
         /\ \A i \in 0..(mem[m].ByteSize - 1) :
              mem[m].Ptr + i \in SizeT /\ mem[m].Ptr + i \in Block(m) /\ i \in SizeT
<1>1. mem[m].Ptr \in SizeT /\ mem[m].ByteSize \in Nat
  BY DEF MemInv, MemType, BufferType
<1>2. mem[m].Ptr \in Nat /\ 2^Width \in Nat
  BY <1>1, SizeTFacts
<1>3. mem[m].ByteSize # 0 /\ mem[m].Ptr + mem[m].ByteSize <= 2^Width
  BY DEF BlocksInRange
<1> QED BY <1>1, <1>2, <1>3 DEF SizeT, Block

(* An accepted transfer stays inside its buffer: its addresses are those of *)
(* the bytes it names.                                                      *)
LEMMA AcceptedFacts ==
  ASSUME MemInv, BlocksInRange, NEW m \in DOMAIN mem, NEW c, NEW null \in BOOLEAN, NEW allowed \in BOOLEAN,
         NEW off \in SizeT, NEW n \in SizeT, off + n < 2^Width,
         TransferError(m, c, null, allowed, off, n) = "CL_SUCCESS"
  PROVE  /\ n \in Nat \ {0} /\ off \in Nat
         /\ off + n <= mem[m].ByteSize
         /\ \A k \in 0..(n - 1) : Address(m, off, k) = mem[m].Ptr + (off + k)
<1>1. off \in Nat /\ n \in Nat
  BY SizeTFacts
<1>2. n # 0 /\ ~(Sum(off, n) > mem[m].ByteSize)
  BY DEF TransferError
<1>3. off + n <= mem[m].ByteSize
  <2>1. Sum(off, n) = off + n /\ mem[m].ByteSize \in Nat
    BY <1>1, SumBelow, BlockFacts
  <2> QED BY <1>1, <1>2, <2>1
<1>4. ASSUME NEW k \in 0..(n - 1)
      PROVE  Address(m, off, k) = mem[m].Ptr + (off + k)
  <2>1. off + k \in Nat /\ off + k < mem[m].ByteSize
    BY <1>1, <1>3, BlockFacts
  <2>2. mem[m].Ptr \in Nat /\ mem[m].Ptr + (off + k) < 2^Width
    <3>1. 2^Width \in Int
      BY WidthAssumption
    <3> QED BY <2>1, <3>1, BlockFacts
  <2> QED BY <2>1, <2>2, SumBelow DEF Address
<1> QED BY <1>1, <1>2, <1>3, <1>4

LEMMA ContentsType ==
  ASSUME MemInv, HeapType, BlocksInRange
  PROVE  /\ DOMAIN Contents = DOMAIN mem
         /\ \A m \in DOMAIN mem : /\ DOMAIN Contents[m] = 0..(mem[m].ByteSize - 1)
                                  /\ Contents[m] \in [0..(mem[m].ByteSize - 1) -> Bytes]
<1>1. ASSUME NEW m \in DOMAIN mem, NEW i \in 0..(mem[m].ByteSize - 1)
      PROVE  heap[mem[m].Ptr + i] \in Bytes
  BY <1>1, BlockFacts DEF HeapType
<1> QED BY <1>1 DEF Contents

(* A step that leaves the buffers and their bytes alone.                    *)
LEMMA SameContents ==
  ASSUME UNCHANGED <<mem, heap>>
  PROVE  Contents' = Contents
BY DEF Contents

LEMMA StoreInvInit == MemInit => StoreInv
<1> SUFFICES ASSUME MemInit PROVE StoreInv
  OBVIOUS
<1>1. ASSUME NEW a \in SizeT PROVE <<0, 0>> \in Bytes
  BY SizeTFacts, BytesFacts, MaxWritesAssumption
<1>2. HeapType
  BY <1>1, MaxWritesAssumption DEF HeapType, MemInit
<1>3. BlocksInRange
  BY DEF BlocksInRange, MemInit
<1> QED BY <1>2, <1>3, MemInvInit DEF StoreInv

(* Each call, mapped to a step of BufferStore.                              *)
LEMMA CreateMaps ==
  ASSUME StoreInv, NEW c \in Contexts, NEW F \in FlagSets, NEW n \in Sizes, CreateBuffer(c, F, n)
  PROVE  StoreInv' /\ \E m \in Mems : Store!Create(m)
<1> USE DEF StoreInv
<1>1. PICK m \in Mems \ DOMAIN mem, p \in SizeT :
        /\ Free(p, n)
        /\ mem' = [q \in DOMAIN mem \cup {m} |->
                     IF q = m THEN [Ctx |-> c, ByteSize |-> n, Ptr |-> p,
                                    Readable |-> Readable(F), Writable |-> Writable(F)]
                              ELSE mem[q]]
  BY DEF CreateBuffer
<1>2. n \in Sizes \ {0}
  BY DEF CreateBuffer, CreateError
<1>3. /\ DOMAIN mem' = DOMAIN mem \cup {m}
      /\ mem'[m].ByteSize = n /\ mem'[m].Ptr = p
      /\ \A q \in DOMAIN mem : mem'[q] = mem[q]
      /\ heap' = heap /\ writes' = writes /\ got' = Nothing
  BY <1>1 DEF CreateBuffer
<1>4. MemInv'
  BY CreateKeepsMemInv
<1>5. HeapType'
  BY <1>3 DEF HeapType
<1>6. BlocksInRange'
  BY <1>1, <1>2, <1>3 DEF BlocksInRange, Free
<1>7. /\ DOMAIN Contents = DOMAIN mem /\ DOMAIN Contents' = DOMAIN mem'
      /\ \A q \in DOMAIN mem : Contents'[q] = Contents[q]
  BY <1>3 DEF Contents
<1>8. Contents'[m] \in [0..(n - 1) -> Bytes]
  <2>1. Contents'[m] = [i \in 0..(n - 1) |-> heap[p + i]]
    BY <1>3 DEF Contents
  <2>2. ASSUME NEW i \in 0..(n - 1) PROVE heap[p + i] \in Bytes
    <3>1. p \in Nat /\ n \in Nat /\ p + n <= 2^Width /\ 2^Width \in Nat
      BY <1>1, SizeTFacts, SizesAssumption DEF Free
    <3> QED BY <3>1 DEF HeapType, SizeT
  <2> QED BY <2>1, <2>2
<1>9. Store!Create(m)
  BY <1>1, <1>2, <1>3, <1>7, <1>8 DEF Store!Create, Store!Nothing, Nothing
<1> QED BY <1>4, <1>5, <1>6, <1>9

LEMMA ReleaseMaps ==
  ASSUME StoreInv, NEW m \in Mems, ReleaseMem(m)
  PROVE  StoreInv' /\ (Store!Destroy(m) \/ Store!Other)
<1> USE DEF StoreInv
<1>1. /\ m \in DOMAIN mem /\ DOMAIN MemObjMap = DOMAIN mem
      /\ MemObjMap \in [DOMAIN mem -> Nat \ {0}]
  BY DEF ReleaseMem, MemInv, MemType
<1>2. DOMAIN MemObjMap' = DOMAIN mem \ {m} \/ DOMAIN MemObjMap' = DOMAIN mem
  <2>1. MemObjMap' = Released(MemObjMap, m)
    BY DEF ReleaseMem
  <2> DEFINE D == DOMAIN mem
  <2>2. m \in D /\ MemObjMap \in [D -> Nat \ {0}]
    BY <1>1
  <2> HIDE DEF StoreInv, D
  <2>3. DOMAIN Released(MemObjMap, m) = D \ {m} \/ DOMAIN Released(MemObjMap, m) = D
    BY <2>2, ReleasedFacts
  <2> QED BY <2>1, <2>3 DEF D
<1>3. /\ mem' = [q \in DOMAIN MemObjMap' |-> mem[q]]
      /\ heap' = heap /\ writes' = writes /\ got' = Nothing
  BY DEF ReleaseMem
<1>4. StoreInv'
  <2>1. MemInv'
    BY ReleaseKeepsMemInv
  <2> QED BY <1>2, <1>3, <2>1 DEF HeapType, BlocksInRange
<1>5. Contents' = [q \in DOMAIN MemObjMap' |-> Contents[q]] /\ DOMAIN Contents = DOMAIN mem
  BY <1>2, <1>3 DEF Contents
<1>6. CASE DOMAIN MemObjMap' = DOMAIN mem \ {m}
  BY <1>1, <1>3, <1>4, <1>5, <1>6 DEF Store!Destroy, Store!Nothing, Nothing
<1>7. CASE DOMAIN MemObjMap' = DOMAIN mem
  <2>1. Contents' = Contents
    BY <1>5, <1>7 DEF Contents
  <2> QED BY <1>3, <1>4, <2>1 DEF Store!Other, Store!Nothing, Nothing
<1> QED BY <1>2, <1>6, <1>7

(* A call that changes no buffer and no byte, and copies none.              *)
LEMMA OtherMaps ==
  ASSUME StoreInv, UNCHANGED <<mem, heap, writes>>, MemInv', got' = Nothing
  PROVE  StoreInv' /\ Store!Other
BY SameContents DEF StoreInv, HeapType, BlocksInRange, Store!Other, Store!Nothing, Nothing

LEMMA ReadMaps ==
  ASSUME StoreInv, NEW m \in Mems, NEW c \in Contexts, NEW null \in BOOLEAN,
         NEW off \in SizeT, NEW n \in SizeT, off + n < 2^Width,
         ReadBuffer(m, c, null, off, n)
  PROVE  StoreInv' /\ (Store!Read(m) \/ Store!Other)
<1> USE DEF StoreInv
<1>1. /\ UNCHANGED <<mem, heap, writes>>
      /\ MemInv'
      /\ ret' = TransferError(m, c, null, mem[m].Readable, off, n)
  BY OtherKeepsMemInv DEF ReadBuffer
<1>2. m \in DOMAIN mem /\ mem[m].Readable \in BOOLEAN
  BY DEF ReadBuffer, MemInv, MemType, CountsHeld, BufferType
<1>3. CASE ret' # "CL_SUCCESS"
  <2>1. got' = Nothing
    BY <1>3 DEF ReadBuffer
  <2> QED BY <1>1, <2>1, OtherMaps
<1>4. CASE ret' = "CL_SUCCESS"
  <2>1. /\ n \in Nat \ {0} /\ off \in Nat /\ off + n <= mem[m].ByteSize
        /\ \A k \in 0..(n - 1) : Address(m, off, k) = mem[m].Ptr + (off + k)
    <3>1. TransferError(m, c, null, mem[m].Readable, off, n) = "CL_SUCCESS"
      BY <1>1, <1>4
    <3> HIDE DEF StoreInv
    <3>2. MemInv /\ BlocksInRange
      BY DEF StoreInv
    <3> DEFINE allowed == mem[m].Readable
    <3> HIDE DEF allowed
    <3>3. TransferError(m, c, null, allowed, off, n) = "CL_SUCCESS" /\ allowed \in BOOLEAN
      BY <1>2, <3>1 DEF allowed
    <3> QED BY <1>2, <3>2, <3>3, AcceptedFacts
  <2>2. got' = [i \in off..(off + n - 1) |-> heap[Address(m, off, i - off)]]
    BY <1>4 DEF ReadBuffer
  <2>3. ASSUME NEW i \in off..(off + n - 1)
        PROVE  heap[Address(m, off, i - off)] = Contents[m][i]
    <3>1. i - off \in 0..(n - 1) /\ off + (i - off) = i /\ i \in 0..(mem[m].ByteSize - 1)
      BY <2>1, BlockFacts, <1>2
    <3> QED BY <1>2, <2>1, <3>1 DEF Contents
  <2>4. off \in DOMAIN Contents[m] /\ off + n - 1 \in DOMAIN Contents[m] /\ m \in DOMAIN Contents
    BY <1>2, <2>1, ContentsType, BlockFacts
  <2>5. Contents' = Contents
    BY <1>1, SameContents
  <2>6. got' = [i \in off..(off + n - 1) |-> Contents[m][i]]
    BY <2>2, <2>3
  <2>7. Store!Read(m)
    BY <2>4, <2>5, <2>6 DEF Store!Read
  <2> QED BY <1>1, <2>7 DEF HeapType, BlocksInRange
<1> QED BY <1>3, <1>4

(* An accepted write names distinct addresses, each for one byte of its     *)
(* buffer, and puts its mark on those bytes and on nothing else.            *)
LEMMA WriteMaps ==
  ASSUME StoreInv, NEW m \in Mems, NEW c \in Contexts, NEW null \in BOOLEAN,
         NEW off \in SizeT, NEW n \in SizeT, off + n < 2^Width,
         WriteBuffer(m, c, null, off, n)
  PROVE  StoreInv' /\ (Store!Write(m) \/ Store!Other)
<1>1. /\ mem' = mem
      /\ MemInv'
      /\ got' = Nothing
      /\ ret' = TransferError(m, c, null, mem[m].Writable, off, n)
      /\ writes < MaxWrites
      /\ MemInv /\ HeapType /\ BlocksInRange
  BY OtherKeepsMemInv DEF WriteBuffer, StoreInv
<1>2. m \in DOMAIN mem /\ mem[m].Writable \in BOOLEAN
  BY <1>1 DEF WriteBuffer, MemInv, MemType, CountsHeld, BufferType
<1>3. CASE ret' # "CL_SUCCESS"
  <2>1. UNCHANGED <<mem, heap, writes>>
    BY <1>1, <1>3 DEF WriteBuffer
  <2> QED BY <1>1, <2>1, OtherMaps
<1>4. CASE ret' = "CL_SUCCESS"
  <2>1. /\ n \in Nat \ {0} /\ off \in Nat /\ off + n <= mem[m].ByteSize
        /\ \A k \in 0..(n - 1) : Address(m, off, k) = mem[m].Ptr + (off + k)
    <3> DEFINE allowed == mem[m].Writable
    <3> HIDE DEF allowed
    <3>1. TransferError(m, c, null, allowed, off, n) = "CL_SUCCESS" /\ allowed \in BOOLEAN
      BY <1>1, <1>2, <1>4 DEF allowed
    <3>2. MemInv /\ BlocksInRange
      BY <1>1
    <3> QED BY <1>2, <3>1, <3>2, AcceptedFacts
  <2> DEFINE Hit(a) == \E k \in 0..(n - 1) : a = Address(m, off, k)
             At(a)  == CHOOSE k \in 0..(n - 1) : a = Address(m, off, k)
  <2>2. /\ heap' = [a \in SizeT |-> IF Hit(a) THEN <<writes + 1, off + At(a)>> ELSE heap[a]]
        /\ writes' = writes + 1
    BY <1>4 DEF WriteBuffer
  <2>3. writes \in Nat /\ writes' \in 0..MaxWrites
    BY <1>1, <2>2, MaxWritesAssumption DEF HeapType
  <2>4. /\ mem[m].ByteSize \in Nat /\ mem[m].Ptr \in Nat /\ 2^Width \in Nat
        /\ mem[m].ByteSize <= 2^Width - mem[m].Ptr
    BY <1>1, <1>2, BlockFacts, SizeTFacts
  <2>5. ASSUME NEW a \in SizeT, Hit(a)
        PROVE  At(a) \in 0..(n - 1) /\ a = mem[m].Ptr + (off + At(a))
    BY <2>1, <2>5
  <2>6. ASSUME NEW i \in off..(off + n - 1)
        PROVE  Hit(mem[m].Ptr + i)
    <3>1. i - off \in 0..(n - 1) /\ off + (i - off) = i
      BY <2>1
    <3> QED BY <2>1, <3>1
  <2> HIDE DEF Hit, At
  <2>7. HeapType'
    <3>1. ASSUME NEW a \in SizeT, Hit(a) PROVE <<writes + 1, off + At(a)>> \in Bytes
      <4>1. off + At(a) \in SizeT
        BY <2>1, <2>4, <2>5, <3>1 DEF SizeT
      <4> QED BY <2>2, <2>3, <4>1, BytesFacts
    <3> QED BY <1>1, <2>2, <2>3, <3>1 DEF HeapType
  <2>8. StoreInv'
    BY <1>1, <2>7 DEF StoreInv, BlocksInRange
  <2>9. /\ DOMAIN Contents = DOMAIN mem /\ DOMAIN Contents' = DOMAIN mem
        /\ \A q \in DOMAIN mem :
             /\ Contents[q] = [i \in 0..(mem[q].ByteSize - 1) |-> heap[mem[q].Ptr + i]]
             /\ Contents'[q] = [i \in 0..(mem[q].ByteSize - 1) |-> heap'[mem[q].Ptr + i]]
    BY <1>1 DEF Contents
  <2>10. ASSUME NEW i \in 0..(mem[m].ByteSize - 1)
         PROVE  heap'[mem[m].Ptr + i] = IF i \in off..(off + n - 1) THEN <<writes + 1, i>>
                                        ELSE heap[mem[m].Ptr + i]
    <3>1. mem[m].Ptr + i \in SizeT
      BY <1>1, <1>2, BlockFacts
    <3>2. CASE i \in off..(off + n - 1)
      <4>1. Hit(mem[m].Ptr + i)
        BY <2>6, <3>2
      <4>2. off + At(mem[m].Ptr + i) = i
        BY <2>1, <2>4, <2>5, <3>1, <4>1
      <4> QED BY <2>2, <3>1, <3>2, <4>1, <4>2
    <3>3. CASE i \notin off..(off + n - 1)
      <4>1. ~Hit(mem[m].Ptr + i)
        BY <2>1, <2>4, <2>5, <3>1, <3>3
      <4> QED BY <2>2, <3>1, <3>3, <4>1
    <3> QED BY <3>2, <3>3
  <2>11. ASSUME NEW q \in DOMAIN mem, q # m, NEW i \in 0..(mem[q].ByteSize - 1)
         PROVE  heap'[mem[q].Ptr + i] = heap[mem[q].Ptr + i]
    <3>1. mem[q].Ptr + i \in SizeT /\ mem[q].Ptr + i \in Block(q)
      BY <1>1, BlockFacts
    <3>2. mem[q].Ptr + i \notin Block(m)
      BY <1>1, <1>2, <2>11, <3>1 DEF MemInv, BlocksApart
    <3>3. ASSUME Hit(mem[q].Ptr + i) PROVE FALSE
      <4>1. /\ At(mem[q].Ptr + i) \in 0..(n - 1)
            /\ mem[q].Ptr + i = mem[m].Ptr + (off + At(mem[q].Ptr + i))
        BY <2>5, <3>1, <3>3
      <4>2. off + At(mem[q].Ptr + i) \in 0..(mem[m].ByteSize - 1)
        BY <2>1, <2>4, <4>1
      <4>3. mem[q].Ptr + i \in Block(m)
        BY <1>1, <1>2, <4>1, <4>2, BlockFacts
      <4> QED BY <3>2, <4>3
    <3> QED BY <2>2, <3>1, <3>3
  <2>12. Contents'[m] = [i \in DOMAIN Contents[m] |-> IF i \in off..(off + n - 1)
                                                      THEN <<writes + 1, i>> ELSE Contents[m][i]]
    <3> DEFINE N == 0..(mem[m].ByteSize - 1)
    <3>1. /\ Contents[m] = [i \in N |-> heap[mem[m].Ptr + i]]
          /\ Contents'[m] = [i \in N |-> heap'[mem[m].Ptr + i]]
      BY <1>2, <2>9
    <3>2. \A i \in N : heap'[mem[m].Ptr + i] = IF i \in off..(off + n - 1)
                                               THEN <<writes + 1, i>> ELSE heap[mem[m].Ptr + i]
      BY <2>10
    <3> HIDE DEF N
    <3>3. DOMAIN Contents[m] = N /\ \A i \in N : Contents[m][i] = heap[mem[m].Ptr + i]
      BY <3>1
    <3>4. \A i \in N : heap'[mem[m].Ptr + i] = IF i \in off..(off + n - 1)
                                               THEN <<writes + 1, i>> ELSE Contents[m][i]
      BY <3>2, <3>3
    <3>5. [i \in N |-> heap'[mem[m].Ptr + i]]
            = [i \in N |-> IF i \in off..(off + n - 1) THEN <<writes + 1, i>> ELSE Contents[m][i]]
      BY <3>4
    <3> QED BY <3>1, <3>3, <3>5
  <2>13. ASSUME NEW q \in DOMAIN mem, q # m PROVE Contents'[q] = Contents[q]
    <3> DEFINE N == 0..(mem[q].ByteSize - 1)
    <3>1. /\ Contents[q] = [i \in N |-> heap[mem[q].Ptr + i]]
          /\ Contents'[q] = [i \in N |-> heap'[mem[q].Ptr + i]]
      BY <2>9
    <3>2. \A i \in N : heap'[mem[q].Ptr + i] = heap[mem[q].Ptr + i]
      BY <2>11, <2>13
    <3> HIDE DEF N
    <3> QED BY <3>1, <3>2, Zenon
  <2>14. Contents' = [Contents EXCEPT ![m] =
                        [i \in DOMAIN @ |-> IF i \in off..(off + n - 1)
                                            THEN <<writes + 1, i>> ELSE @[i]]]
    <3> DEFINE C == [i \in DOMAIN Contents[m] |-> IF i \in off..(off + n - 1)
                                                  THEN <<writes + 1, i>> ELSE Contents[m][i]]
    <3>1. Contents'[m] = C
      BY <2>12
    <3>2. Contents' = [q \in DOMAIN mem |-> Contents'[q]] /\ Contents = [q \in DOMAIN mem |-> Contents[q]]
      BY <2>9 DEF Contents
    <3> HIDE DEF C
    <3>3. Contents' = [Contents EXCEPT ![m] = C]
      BY <1>2, <2>9, <2>13, <3>1, <3>2
    <3> QED BY <3>3 DEF C
  <2>15. writes + 1 \in {b[1] : b \in Bytes}
    <3>1. <<writes + 1, off>> \in Bytes
      BY <2>2, <2>3, BytesFacts
    <3> QED BY <3>1
  <2>16. off \in DOMAIN Contents[m] /\ off + n - 1 \in DOMAIN Contents[m]
    BY <1>2, <2>1, <2>4, <2>9
  <2>17. Store!Write(m)
    <3> DEFINE w == writes + 1  lo == off  hi == off + n - 1
    <3>1. /\ w \in {b[1] : b \in Bytes} /\ lo \in DOMAIN Contents[m] /\ hi \in DOMAIN Contents[m]
          /\ Contents' = [Contents EXCEPT ![m] =
                            [i \in DOMAIN @ |-> IF i \in lo..hi THEN <<w, i>> ELSE @[i]]]
          /\ m \in DOMAIN Contents /\ got' = Store!Nothing
      BY <1>1, <1>2, <2>9, <2>14, <2>15, <2>16 DEF Store!Nothing, Nothing
    <3> HIDE DEF w, lo, hi
    <3> QED BY <3>1, Zenon DEF Store!Write
  <2> QED BY <2>8, <2>17
<1> QED BY <1>3, <1>4

LEMMA StoreStep ==
  ASSUME ~AllowWrap, StoreInv, [MemNext]_memVars
  PROVE  StoreInv' /\ [Store!Next]_Store!vars
<1>1. ASSUME NEW c \in Contexts, NEW F \in FlagSets, NEW n \in Sizes,
             CreateBuffer(c, F, n) \/ CreateRefused(F, n)
      PROVE  StoreInv' /\ Store!Next
  <2>1. CASE CreateBuffer(c, F, n)
    BY <2>1, CreateMaps DEF Store!Next
  <2>2. CASE CreateRefused(F, n)
    <3>1. MemInv' /\ UNCHANGED <<mem, heap, writes>> /\ got' = Nothing
      BY <2>2, OtherKeepsMemInv DEF CreateRefused, StoreInv
    <3> QED BY <3>1, OtherMaps DEF Store!Next
  <2> QED BY <1>1, <2>1, <2>2
<1>2. ASSUME NEW m \in Mems, RetainMem(m) PROVE StoreInv' /\ Store!Next
  <2>1. MemInv' /\ UNCHANGED <<mem, heap, writes>> /\ got' = Nothing
    BY <1>2, RetainKeepsMemInv DEF RetainMem, StoreInv
  <2> QED BY <2>1, OtherMaps DEF Store!Next
<1>3. ASSUME NEW m \in Mems, ReleaseMem(m) PROVE StoreInv' /\ Store!Next
  BY <1>3, ReleaseMaps DEF Store!Next
<1>4. ASSUME NEW m \in Mems, CountRefused(m) PROVE StoreInv' /\ Store!Next
  <2>1. MemInv' /\ UNCHANGED <<mem, heap, writes>> /\ got' = Nothing
    BY <1>4, OtherKeepsMemInv DEF CountRefused, StoreInv
  <2> QED BY <2>1, OtherMaps DEF Store!Next
<1>5. ASSUME NEW m \in Mems, Transfer(m) PROVE StoreInv' /\ Store!Next
  <2>1. PICK c \in Contexts, null \in BOOLEAN, off \in SizeT, n \in SizeT :
          off + n < 2^Width /\ (ReadBuffer(m, c, null, off, n) \/ WriteBuffer(m, c, null, off, n))
    BY <1>5 DEF Transfer
  <2>2. StoreInv' /\ (Store!Read(m) \/ Store!Write(m) \/ Store!Other)
    BY <2>1, ReadMaps, WriteMaps
  <2> QED BY <2>2 DEF Store!Next
<1>6. CASE ArgumentRefused
  <2>1. MemInv' /\ UNCHANGED <<mem, heap, writes>> /\ got' = Nothing
    BY <1>6, OtherKeepsMemInv DEF ArgumentRefused, StoreInv
  <2> QED BY <2>1, OtherMaps DEF Store!Next
<1>7. CASE UNCHANGED memVars
  <2>1. UNCHANGED <<mem, heap, writes>> /\ MemInv' /\ UNCHANGED got
    BY <1>7, OtherKeepsMemInv DEF memVars, StoreInv
  <2>2. StoreInv'
    BY <2>1 DEF StoreInv, HeapType, BlocksInRange
  <2> QED BY <2>1, <2>2, SameContents DEF Store!vars
<1> QED BY <1>1, <1>2, <1>3, <1>4, <1>5, <1>6, <1>7 DEF MemNext

(* The buffers are independent arrays, for every heap, allocator and        *)
(* sequence of calls whose ranges do not pass size_t: a write reaches only  *)
(* the bytes it names of the buffer it names, whatever blocks and handles   *)
(* were freed and reused before, and a read returns the bytes last written  *)
(* there (read, write and the destructor of MemoryObject.cpp).              *)
THEOREM BuffersAreArrays ==
  ASSUME ~AllowWrap PROVE MemSpec => ImplementsBufferStore
<1>1. MemInit => Store!Init
  BY DEF MemInit, Store!Init, Store!Nothing, Nothing, Contents
<1>2. StoreInv /\ [MemNext]_memVars => StoreInv' /\ [Store!Next]_Store!vars
  BY StoreStep
<1> QED BY <1>1, <1>2, StoreInvInit, PTL DEF MemSpec, ImplementsBufferStore, Store!Spec
=============================================================================
