---------------------------- MODULE MemoryProofs ----------------------------
(* The safety of the RAM owners and of the images of a machine, for every heap, *)
(* size and byte width.                                                         *)
EXTENDS MachineImages, MemoryAccessProofs

-----------------------------------------------------------------------------
(* The inductive invariant is the conjunction of the properties the run checks: *)
(* each needs the others (a destroy frees one block, so it preserves NoDangling *)
(* of the other owners only because of SoleOwnership).                          *)
IInv == TypeOK /\ NoDangling /\ SoleOwnership /\ NoLeak

LEMMA ArrayIsLive ==
  ASSUME NEW n \in Nat, n >= 4, NEW f \in Arrays(n)
  PROVE  f # NotAllocated /\ DOMAIN f = 0 .. n - 1
<1>1. DOMAIN f = 0 .. n - 1 /\ 0 \in 0 .. n - 1
  BY DEF Arrays
<1>2. DOMAIN NotAllocated = {}
  BY DEF NotAllocated
<1> QED  BY <1>1, <1>2

LEMMA ValidSize ==
  ASSUME NEW n \in Nat, SizeValid(n)
  PROVE  n >= 4 /\ n \in 0 .. MaxSize
  BY MaxSizeAssumption DEF SizeValid, WordSize

\* What IInv says of an owner that the code accepts as ready.
LEMMA ReadyOwner ==
  ASSUME IInv, NEW o \in Arguments, Ready(o)
  PROVE  /\ o \in Owners /\ owner[o].bytes \in Blocks /\ Live(owner[o].bytes)
         /\ owner[o].size \in Nat /\ SizeValid(owner[o].size)
         /\ Contents(o) \in Arrays(owner[o].size)
<1>1. o \in Owners /\ owner[o].bytes \in Blocks /\ owner[o].size \in Nat
  BY DEF Arguments, Ready, IInv, TypeOK, Memories
<1>2. Live(owner[o].bytes) /\ DOMAIN Contents(o) = 0 .. owner[o].size - 1
  BY <1>1 DEF Ready, IInv, NoDangling
<1>3. PICK k \in Nat : SizeValid(k) /\ Contents(o) \in Arrays(k)
  BY <1>1, <1>2, MaxSizeAssumption DEF IInv, TypeOK, Cells, Live, Contents
<1>4. k = owner[o].size
  <2>1. 0 .. k - 1 = 0 .. owner[o].size - 1
    BY <1>2, <1>3 DEF Arrays
  <2>2. k - 1 \in 0 .. k - 1 /\ owner[o].size - 1 \in 0 .. owner[o].size - 1
    BY <1>1, <1>3, ValidSize DEF Ready
  <2> QED  BY <2>1, <2>2, <1>1
<1> QED  BY <1>1, <1>2, <1>3, <1>4

\* The three ways a call changes the heap: it stores into the block of a ready
\* owner, it releases a block, or it gives a fresh block to an owner.
LEMMA StoreKeepsIInv ==
  ASSUME IInv, NEW o \in Arguments, Ready(o),
         NEW f \in Arrays(owner[o].size), Update(o, f), UNCHANGED owner,
         ret' \in [call : Calls, ok : BOOLEAN, value : Word]
  PROVE  IInv'
<1>1. /\ o \in Owners /\ owner[o].bytes \in Blocks
      /\ owner[o].size \in Nat /\ SizeValid(owner[o].size) /\ Live(owner[o].bytes)
  BY ReadyOwner
<1>2. /\ f \in Cells /\ f # NotAllocated /\ DOMAIN f = 0 .. owner[o].size - 1
  BY <1>1, ValidSize, ArrayIsLive DEF Cells
<1>3. heap \in [Blocks -> Cells] /\ heap' = [heap EXCEPT ![owner[o].bytes] = f]
  BY DEF IInv, TypeOK, Update
<1>4. TypeOK'
  BY <1>1, <1>2, <1>3 DEF IInv, TypeOK
<1>5. \A b \in Blocks : Live(b)' <=> Live(b)
  BY <1>1, <1>2, <1>3 DEF Live
<1>6. NoLeak' /\ SoleOwnership'
  BY <1>5 DEF IInv, NoLeak, SoleOwnership
<1>7. NoDangling'
  <2> SUFFICES ASSUME NEW p \in Owners, owner[p].bytes # Null
               PROVE  /\ Live(owner[p].bytes)' /\ SizeValid(owner[p].size)
                      /\ DOMAIN heap'[owner[p].bytes] = 0 .. owner[p].size - 1
    BY DEF IInv, NoDangling, Contents
  <2>1. owner[p].bytes \in Blocks
    BY DEF IInv, TypeOK, Memories
  <2>2. CASE owner[p].bytes = owner[o].bytes
    <3>1. p = o
      BY <1>1, <2>2 DEF IInv, SoleOwnership
    <3> QED  BY <1>1, <1>2, <1>3, <1>5, <3>1
  <2>3. CASE owner[p].bytes # owner[o].bytes
    BY <1>1, <1>3, <1>5, <2>1, <2>3 DEF IInv, NoDangling, Contents
  <2> QED  BY <2>2, <2>3
<1> QED  BY <1>4, <1>6, <1>7 DEF IInv

LEMMA ReleaseKeepsIInv ==
  ASSUME IInv, NEW o \in Owners,
         heap' = Released(owner[o].bytes),
         owner' = [owner EXCEPT ![o] = NoMemory],
         ret' \in [call : Calls, ok : BOOLEAN, value : Word]
  PROVE  IInv'
<1>1. /\ owner \in [Owners -> Memories] /\ heap \in [Blocks -> Cells]
      /\ \A p \in Owners : owner[p].bytes \in Blocks \cup {Null}
  BY DEF IInv, TypeOK, Memories
<1>2. TypeOK'
  BY <1>1 DEF IInv, TypeOK, Released, NoMemory, Memories, Cells
<1>3. \A b \in Blocks : Live(b)' <=> Live(b) /\ b # owner[o].bytes
  BY <1>1, NullAssumption DEF Live, Released
<1>4. \A p \in Owners : owner'[p] = IF p = o THEN NoMemory ELSE owner[p]
  BY <1>1
<1>5. NoLeak'
  BY <1>3, <1>4 DEF IInv, NoLeak
<1>6. SoleOwnership'
  BY <1>4 DEF IInv, SoleOwnership, NoMemory
<1>7. NoDangling'
  <2> SUFFICES ASSUME NEW p \in Owners, p # o, owner[p].bytes # Null
               PROVE  /\ Live(owner[p].bytes)' /\ SizeValid(owner[p].size)
                      /\ DOMAIN heap'[owner[p].bytes] = 0 .. owner[p].size - 1
    BY <1>4 DEF IInv, NoDangling, Contents, NoMemory
  <2>1. owner[p].bytes \in Blocks /\ owner[p].bytes # owner[o].bytes
    BY <1>1 DEF IInv, SoleOwnership
  <2> QED  BY <1>1, <1>3, <2>1 DEF IInv, NoDangling, Contents, Released
<1> QED  BY <1>2, <1>5, <1>6, <1>7 DEF IInv

LEMMA ReplaceKeepsIInv ==
  ASSUME IInv, NEW o \in Owners, NEW b \in Unused, NEW n \in Nat, SizeValid(n),
         NEW f \in Arrays(n),
         heap' = [Released(owner[o].bytes) EXCEPT ![b] = f],
         owner' = [owner EXCEPT ![o] = [bytes |-> b, size |-> n]],
         ret' \in [call : Calls, ok : BOOLEAN, value : Word]
  PROVE  IInv'
<1>1. /\ owner \in [Owners -> Memories] /\ heap \in [Blocks -> Cells]
      /\ \A p \in Owners : owner[p].bytes \in Blocks \cup {Null}
      /\ b \in Blocks /\ ~Live(b) /\ b # Null
  BY NullAssumption DEF IInv, TypeOK, Memories, Unused
<1>2. f \in Cells /\ f # NotAllocated /\ DOMAIN f = 0 .. n - 1
  BY ValidSize, ArrayIsLive DEF Cells
<1>3. Released(owner[o].bytes) \in [Blocks -> Cells]
  BY <1>1 DEF Released, Cells
<1>4. TypeOK'
  BY <1>1, <1>2, <1>3 DEF IInv, TypeOK, Memories
<1>5. \A p \in Owners : owner'[p] = IF p = o THEN [bytes |-> b, size |-> n] ELSE owner[p]
  BY <1>1
<1>6. \A c \in Blocks : heap'[c] = IF c = b THEN f
                                   ELSE IF c = owner[o].bytes THEN NotAllocated ELSE heap[c]
  BY <1>1, <1>3, NullAssumption DEF Released
<1>7. \A c \in Blocks : Live(c)' <=> c = b \/ (Live(c) /\ c # owner[o].bytes)
  BY <1>1, <1>2, <1>6 DEF Live
<1>8. \A p \in Owners : owner[p].bytes # b
  BY <1>1 DEF IInv, NoDangling
<1>9. NoLeak'
  BY <1>5, <1>7 DEF IInv, NoLeak
<1>10. SoleOwnership'
  BY <1>5, <1>8 DEF IInv, SoleOwnership
<1>11. NoDangling'
  <2> SUFFICES ASSUME NEW p \in Owners, owner'[p].bytes # Null
               PROVE  /\ Live(owner[p].bytes)' /\ SizeValid(owner'[p].size)
                      /\ DOMAIN heap'[owner'[p].bytes] = 0 .. owner'[p].size - 1
    <3>1. \A p \in Owners : owner'[p].bytes = Null => owner'[p].size = 0
      BY <1>1, <1>5 DEF IInv, NoDangling
    <3> QED  BY <3>1 DEF NoDangling, Contents
  <2>1. CASE p = o
    BY <1>1, <1>2, <1>5, <1>6, <1>7, <2>1
  <2>2. CASE p # o
    <3>1. owner'[p] = owner[p] /\ owner[p].bytes \in Blocks /\ owner[p].bytes # b
      BY <1>1, <1>5, <1>8, <2>2
    <3>2. owner[p].bytes # owner[o].bytes
      BY <2>2, <3>1 DEF IInv, SoleOwnership
    <3> QED  BY <1>6, <1>7, <3>1, <3>2 DEF IInv, NoDangling, Contents
  <2> QED  BY <2>1, <2>2
<1> QED  BY <1>4, <1>9, <1>10, <1>11 DEF IInv

LEMMA MoveKeepsIInv ==
  ASSUME IInv, NEW s \in Owners, NEW d \in Owners, MayMove(s, d), MemoryMove(s, d)
  PROVE  IInv'
<1>1. /\ owner \in [Owners -> Memories] /\ heap \in [Blocks -> Cells]
      /\ UNCHANGED heap /\ owner[d].bytes = Null
  BY DEF IInv, TypeOK, MayMove, NoMemory, MemoryMove
<1>2. \A p \in Owners : owner'[p] = IF p = s THEN NoMemory
                                    ELSE IF p = d THEN owner[s] ELSE owner[p]
  BY <1>1 DEF MemoryMove, MayMove
<1>3. ret' \in [call : Calls, ok : BOOLEAN, value : Word]
  BY PlaceType DEF MemoryMove, Answer, Calls, Word, WordSize
<1>4. TypeOK'
  BY <1>1, <1>3 DEF TypeOK, MemoryMove, NoMemory, Memories
<1>5. NoDangling'
  BY <1>1, <1>2 DEF IInv, NoDangling, Live, Contents, NoMemory
<1>6. SoleOwnership'
  BY <1>1, <1>2 DEF IInv, SoleOwnership, NoMemory
<1>7. NoLeak'
  <2> SUFFICES ASSUME NEW b \in Blocks, Live(b)
               PROVE  \E o \in Owners : owner'[o].bytes = b
    BY <1>1 DEF NoLeak, Live
  <2>1. PICK o \in Owners : owner[o].bytes = b
    BY DEF IInv, NoLeak
  <2>2. o # d
    BY <1>1, <2>1, NullAssumption
  <2> QED  BY <1>2, <2>1, <2>2 DEF MayMove
<1> QED  BY <1>4, <1>5, <1>6, <1>7 DEF IInv

LEMMA ZeroIsWord == 0 \in Word
  BY PlaceType DEF Word, WordSize

LEMMA InitIInv == Init => IInv
  BY ZeroIsWord DEF Init, IInv, TypeOK, NoDangling, SoleOwnership, NoLeak, NoMemory,
                    Memories, Cells, Live, Calls

LEMMA AnswerType ==
  ASSUME NEW call \in Calls, NEW ok \in BOOLEAN, NEW v \in Word, Answer(call, ok, v)
  PROVE  ret' \in [call : Calls, ok : BOOLEAN, value : Word]
  BY DEF Answer

LEMMA RefuseKeepsIInv ==
  ASSUME IInv, UNCHANGED <<heap, owner>>,
         ret' \in [call : Calls, ok : BOOLEAN, value : Word]
  PROVE  IInv'
  BY DEF IInv, TypeOK, NoDangling, SoleOwnership, NoLeak, Live, Contents

LEMMA NextIInv == IInv /\ [Next]_vars => IInv'
<1> SUFFICES ASSUME IInv, [Next]_vars PROVE IInv'
  OBVIOUS
<1>1. \A call \in Calls : Refuse(call) => IInv'
  BY AnswerType, ZeroIsWord, RefuseKeepsIInv DEF Refuse
<1>2. \A call \in Calls : Answer(call, TRUE, 0) =>
        ret' \in [call : Calls, ok : BOOLEAN, value : Word]
  BY AnswerType, ZeroIsWord
<1>3. ASSUME NEW o \in Arguments, NEW size \in Sizes, MemoryInit(o, size)
      PROVE  IInv'
  <2>1. CASE Refuse("init")
    BY <1>1, <2>1 DEF Calls
  <2>2. CASE InitAccepts(o, size) /\ ~Refuse("init")
    <3>1. PICK b \in Unused :
            /\ heap' = [heap EXCEPT ![b] = Zeros(size)]
            /\ owner' = [owner EXCEPT ![o] = [bytes |-> b, size |-> size]]
            /\ Answer("init", TRUE, 0)
      BY <1>3, <2>2 DEF MemoryInit
    <3>2. o \in Owners /\ owner[o].bytes = Null /\ size \in Nat /\ SizeValid(size)
      BY <2>2, ArgumentsAssumption DEF InitAccepts, NoMemory, Arguments
    <3>3. heap' = [Released(owner[o].bytes) EXCEPT ![b] = Zeros(size)]
      BY <3>1, <3>2 DEF Released
    <3>4. Zeros(size) \in Arrays(size)
      BY <3>2, ZerosType
    <3> QED  BY <1>2, <3>1, <3>2, <3>3, <3>4, ReplaceKeepsIInv DEF Calls
  <2> QED  BY <1>3, <2>1, <2>2 DEF MemoryInit
<1>4. ASSUME NEW o \in Arguments, MemoryDestroy(o)
      PROVE  IInv'
  <2>1. CASE o = Null
    BY <1>2, <1>4, <2>1, RefuseKeepsIInv DEF MemoryDestroy, Calls
  <2>2. CASE o # Null
    <3>1. o \in Owners
      BY <2>2 DEF Arguments
    <3> QED  BY <1>2, <1>4, <2>2, <3>1, ReleaseKeepsIInv DEF MemoryDestroy, Calls
  <2> QED  BY <2>1, <2>2
<1>5. ASSUME NEW o \in Arguments, MemoryReset(o)
      PROVE  IInv'
  <2>1. CASE Ready(o)
    <3>1. owner[o].size \in Nat
      BY <2>1, ReadyOwner
    <3>2. Zeros(owner[o].size) \in Arrays(owner[o].size)
      BY <3>1, ZerosType
    <3> QED  BY <1>2, <1>5, <2>1, <3>2, StoreKeepsIInv DEF MemoryReset, Calls
  <2>2. CASE ~Ready(o)
    BY <1>2, <1>5, <2>2, RefuseKeepsIInv DEF MemoryReset, Calls
  <2> QED  BY <2>1, <2>2
<1>6. ASSUME NEW s \in Arguments, NEW d \in Arguments, MemoryCopy(s, d)
      PROVE  IInv'
  <2>1. CASE Refuse("copy")
    BY <1>1, <2>1 DEF Calls
  <2>2. CASE CopyAccepts(s, d)
    <3>1. Contents(s) \in Arrays(owner[d].size)
      BY <2>2, ReadyOwner DEF CopyAccepts
    <3> QED  BY <1>2, <1>6, <2>2, <3>1, StoreKeepsIInv DEF MemoryCopy, CopyAccepts, Calls
  <2> QED  BY <1>6, <2>1, <2>2 DEF MemoryCopy
<1>7. ASSUME NEW s \in Arguments, NEW d \in Arguments, MemoryClone(s, d)
      PROVE  IInv'
  <2>1. CASE Refuse("clone")
    BY <1>1, <2>1 DEF Calls
  <2>2. CASE CloneAccepts(s, d) /\ s = d /\ ~Refuse("clone")
    BY <1>2, <1>7, <2>2, RefuseKeepsIInv DEF MemoryClone, Calls
  <2>3. CASE CloneAccepts(s, d) /\ s # d /\ ~Refuse("clone")
    <3>1. PICK b \in Unused :
            /\ heap' = [Released(owner[d].bytes) EXCEPT ![b] = Contents(s)]
            /\ owner' = [owner EXCEPT ![d] = [bytes |-> b, size |-> owner[s].size]]
            /\ Answer("clone", TRUE, 0)
      BY <1>7, <2>3 DEF MemoryClone
    <3>2. d \in Owners
      BY <2>3 DEF CloneAccepts, Arguments
    <3>3. owner[s].size \in Nat /\ SizeValid(owner[s].size) /\ Contents(s) \in Arrays(owner[s].size)
      BY <2>3, ReadyOwner DEF CloneAccepts
    <3> QED  BY <1>2, <3>1, <3>2, <3>3, ReplaceKeepsIInv DEF Calls
  <2> QED  BY <1>7, <2>1, <2>2, <2>3 DEF MemoryClone
<1>8. ASSUME NEW o \in Arguments, NEW a \in Addresses, NEW w \in Widths,
             NEW pointer \in Pointers, MemoryRead(o, a, w, pointer)
      PROVE  IInv'
  <2>1. CASE Refuse("read")
    BY <1>1, <2>1 DEF Calls
  <2>2. CASE Accessible(o, a, w) /\ ~Refuse("read")
    <3>1. /\ owner[o].size \in Nat /\ Contents(o) \in Arrays(owner[o].size)
          /\ AccessValid(owner[o].size, a, w) /\ a \in Nat
      BY <2>2, ReadyOwner, ArgumentsAssumption DEF Accessible
    <3>2. ReadBytes(Contents(o), a, w) \in Word
      BY <3>1, ReadBytesType
    <3> QED  BY <1>8, <2>2, <3>2, AnswerType, RefuseKeepsIInv DEF MemoryRead, Calls
  <2> QED  BY <1>8, <2>1, <2>2 DEF MemoryRead
<1>9. ASSUME NEW o \in Arguments, NEW a \in Addresses, NEW w \in Widths, NEW v \in Values,
             MemoryWrite(o, a, w, v)
      PROVE  IInv'
  <2>1. CASE Refuse("write")
    BY <1>1, <2>1 DEF Calls
  <2>2. CASE Accessible(o, a, w) /\ ~Refuse("write")
    <3>1. /\ owner[o].size \in Nat /\ Contents(o) \in Arrays(owner[o].size)
          /\ Ready(o) /\ a \in Nat /\ v \in Word
      BY <2>2, ReadyOwner, ArgumentsAssumption DEF Accessible
    <3>2. WriteBytes(Contents(o), a, w, v) \in Arrays(owner[o].size)
      BY <3>1, WriteBytesType
    <3> QED  BY <1>2, <1>9, <2>2, <3>1, <3>2, StoreKeepsIInv DEF MemoryWrite, Calls
  <2> QED  BY <1>9, <2>1, <2>2 DEF MemoryWrite
<1>10. ASSUME UNCHANGED vars PROVE IInv'
  BY <1>10 DEF vars, IInv, TypeOK, NoDangling, SoleOwnership, NoLeak, Live, Contents
<1>11. ASSUME NEW s \in Arguments \ {Null}, NEW d \in Arguments \ {Null},
              MayMove(s, d), MemoryMove(s, d)
       PROVE  IInv'
  BY <1>11, MoveKeepsIInv DEF Arguments
<1> QED  BY <1>3, <1>4, <1>5, <1>6, <1>7, <1>8, <1>9, <1>10, <1>11 DEF Next, CallWith

\* The inductive invariant holds of every behaviour of memory.c.
THEOREM MemoryInvariant == Spec => []IInv
  BY InitIInv, NextIInv, PTL DEF Spec

\* Types are respected: every stored byte fits a byte, every owner has a size.
THEOREM MemoryTypes == Spec => []TypeOK
  BY MemoryInvariant, PTL DEF IInv

\* No owner points to a freed block or is larger than its block.
THEOREM MemoryNoDangling == Spec => []NoDangling
  BY MemoryInvariant, PTL DEF IInv

\* No block has two owners, so none is freed twice.
THEOREM MemorySoleOwnership == Spec => []SoleOwnership
  BY MemoryInvariant, PTL DEF IInv

\* No sequence of calls, failed allocations included, loses a block.
THEOREM MemoryNoLeak == Spec => []NoLeak
  BY MemoryInvariant, PTL DEF IInv

\* Blocks and owners correspond, whatever the calls and the failures of calloc.
THEOREM MemoryHeapSound == Spec => []HeapSound
<1>1. IInv => HeapSound
  BY DEF IInv, HeapSound
<1> QED
  BY <1>1, MemoryInvariant, PTL
-----------------------------------------------------------------------------
(* Implementation: under the refinement mapping valueBar every call is a step *)
(* of MemoryValue.  The three effects on the heap change one entry of it.     *)

LEMMA BarOf ==
  ASSUME NEW o \in Owners
  PROVE  valueBar[o] = [size |-> owner[o].size,
                        bytes |-> IF owner[o].bytes = Null THEN NotAllocated
                                                           ELSE heap[owner[o].bytes]]
  BY DEF valueBar, Contents

LEMMA BarOfReady ==
  ASSUME IInv, NEW o \in Arguments, Ready(o)
  PROVE  o \in Owners /\ Value!Holds(o)
         /\ valueBar[o] = [size |-> owner[o].size, bytes |-> Contents(o)]
<1>1. o \in Owners /\ owner[o].size \in Nat /\ SizeValid(owner[o].size)
  BY ReadyOwner
<1>2. valueBar[o] = [size |-> owner[o].size, bytes |-> Contents(o)]
  BY <1>1, BarOf DEF Ready, Contents
<1> QED  BY <1>1, <1>2, ValidSize DEF Value!Holds

LEMMA StoreBar ==
  ASSUME IInv, NEW o \in Arguments, Ready(o), NEW f, Update(o, f), UNCHANGED owner
  PROVE  valueBar' = [valueBar EXCEPT ![o].bytes = f]
<1>1. o \in Owners /\ owner[o].bytes \in Blocks /\ owner[o].bytes # Null
  BY ReadyOwner, NullAssumption
<1>2. heap' = [heap EXCEPT ![owner[o].bytes] = f] /\ heap \in [Blocks -> Cells]
  BY DEF Update, IInv, TypeOK
<1>3. \A p \in Owners : owner[p].bytes \in Blocks \cup {Null}
  BY DEF IInv, TypeOK, Memories
<1>4. \A p \in Owners : p # o => owner[p].bytes # owner[o].bytes
  BY <1>1 DEF IInv, SoleOwnership
<1> QED  BY <1>1, <1>2, <1>3, <1>4 DEF valueBar, Contents

LEMMA ReleaseBar ==
  ASSUME IInv, NEW o \in Owners, heap' = Released(owner[o].bytes),
         owner' = [owner EXCEPT ![o] = NoMemory]
  PROVE  valueBar' = [valueBar EXCEPT ![o] = Value!Nothing]
<1>1. \A p \in Owners : owner[p].bytes \in Blocks \cup {Null}
  BY DEF IInv, TypeOK, Memories
<1>2. heap \in [Blocks -> Cells] /\ owner \in [Owners -> Memories]
  BY DEF IInv, TypeOK
<1>3. \A p \in Owners : p # o /\ owner[p].bytes # Null => owner[p].bytes # owner[o].bytes
  BY DEF IInv, SoleOwnership
<1>4. \A p \in Owners : p # o /\ owner[p].bytes # Null
                           => heap'[owner[p].bytes] = heap[owner[p].bytes]
  BY <1>1, <1>2, <1>3 DEF Released
<1>5. \A p \in Owners : owner'[p] = IF p = o THEN NoMemory ELSE owner[p]
  BY <1>2
<1>6. DOMAIN valueBar = Owners /\ DOMAIN valueBar' = Owners
  BY DEF valueBar
<1>7. ASSUME NEW p \in Owners
      PROVE  valueBar'[p] = IF p = o THEN Value!Nothing ELSE valueBar[p]
  <2>1. CASE p = o
    <3>1. owner'[p].bytes = Null /\ owner'[p].size = 0
      BY <1>5, <2>1 DEF NoMemory
    <3> QED  BY <2>1, <3>1 DEF valueBar, Value!Nothing, NotAllocated
  <2>2. CASE p # o
    BY <1>4, <1>5, <2>2 DEF valueBar, Contents
  <2> QED  BY <2>1, <2>2
<1>8. valueBar = [p \in Owners |-> valueBar[p]] /\ valueBar' = [p \in Owners |-> valueBar'[p]]
  BY DEF valueBar
<1> QED  BY <1>7, <1>8

\* Owner o trades its block for the fresh block b that holds f; its value is v.
Replaces(o, b, n, f) ==
  /\ heap' = [Released(owner[o].bytes) EXCEPT ![b] = f]
  /\ owner' = [owner EXCEPT ![o] = [bytes |-> b, size |-> n]]
BarReplaced(o, v) == valueBar' = [valueBar EXCEPT ![o] = v]

LEMMA ReplaceBar ==
  ASSUME IInv, NEW o \in Owners, NEW b \in Unused, NEW n \in Nat, NEW f,
         Replaces(o, b, n, f)
  PROVE  BarReplaced(o, [size |-> n, bytes |-> f])
<1> USE DEF Replaces, BarReplaced
<1>1. /\ \A p \in Owners : owner[p].bytes \in Blocks \cup {Null}
      /\ heap \in [Blocks -> Cells] /\ owner \in [Owners -> Memories]
      /\ b \in Blocks /\ b # Null /\ ~Live(b)
  BY NullAssumption DEF IInv, TypeOK, Memories, Unused
<1>2. \A p \in Owners : p # o /\ owner[p].bytes # Null =>
        owner[p].bytes # owner[o].bytes /\ owner[p].bytes # b
  BY <1>1 DEF IInv, SoleOwnership, NoDangling
<1>3. /\ \A p \in Owners : p # o /\ owner[p].bytes # Null
                              => heap'[owner[p].bytes] = heap[owner[p].bytes]
      /\ heap'[b] = f
  BY <1>1, <1>2 DEF Released
<1>4. \A p \in Owners : owner'[p] = IF p = o THEN [bytes |-> b, size |-> n] ELSE owner[p]
  BY <1>1
<1> QED  BY <1>1, <1>3, <1>4 DEF valueBar, Contents

LEMMA InitBar == Init => Value!Init
  BY DEF Init, Value!Init, valueBar, NoMemory, Value!Nothing, NotAllocated

\* A refused call leaves every value alone.
Refused(call) == UNCHANGED valueBar /\ ret' = [call |-> call, ok |-> FALSE, value |-> 0]

LEMMA RefuseValue ==
  ASSUME NEW call, Refuse(call)
  PROVE  Refused(call)
  BY DEF Refuse, Answer, Refused, valueBar, Contents

\* Each call that changes a value changes the value of one owner.
LEMMA InitValue ==
  ASSUME IInv, NEW o \in Arguments, NEW size \in Sizes, MemoryInit(o, size)
  PROVE  Refused("init") \/ (o \in Owners /\ Value!Create(o, size))
<1>1. CASE Refuse("init")
  BY <1>1, RefuseValue
<1>2. CASE InitAccepts(o, size) /\ ~Refuse("init")
  <2>1. PICK b \in Unused :
          /\ heap' = [heap EXCEPT ![b] = Zeros(size)]
          /\ owner' = [owner EXCEPT ![o] = [bytes |-> b, size |-> size]]
          /\ Answer("init", TRUE, 0)
    BY <1>2 DEF MemoryInit
  <2>2. /\ o \in Owners /\ owner[o].bytes = Null /\ size \in Nat /\ SizeValid(size)
        /\ owner[o].size = 0
    BY <1>2, ArgumentsAssumption DEF InitAccepts, NoMemory, Arguments
  <2>3. heap' = [Released(owner[o].bytes) EXCEPT ![b] = Zeros(size)]
    BY <2>1, <2>2 DEF Released
  <2>4. valueBar' = [valueBar EXCEPT ![o] = [size |-> size, bytes |-> Zeros(size)]]
    <3>1. Replaces(o, b, size, Zeros(size))
      BY <2>1, <2>3 DEF Replaces
    <3>2. BarReplaced(o, [size |-> size, bytes |-> Zeros(size)])
      BY <2>2, <3>1, ReplaceBar
    <3> QED  BY <3>2 DEF BarReplaced
  <2>5. valueBar[o] = Value!Nothing
    BY <2>2, BarOf DEF Value!Nothing, NotAllocated
  <2>6. Value!Create(o, size)
    BY <2>1, <2>2, <2>4, <2>5 DEF Value!Create, Value!Succeed, Answer, Value!Zeros, Zeros,
       Value!SizeValid, SizeValid, Value!WordSize, WordSize
  <2> QED  BY <2>2, <2>6
<1> QED  BY <1>1, <1>2 DEF MemoryInit

LEMMA CopyValue ==
  ASSUME IInv, NEW s \in Arguments, NEW d \in Arguments, MemoryCopy(s, d)
  PROVE  Refused("copy") \/ (s \in Owners /\ d \in Owners /\ Value!Assign(s, d))
<1>1. CASE Refuse("copy")
  BY <1>1, RefuseValue
<1>2. CASE CopyAccepts(s, d) /\ ~Refuse("copy")
  <2>1. /\ s \in Owners /\ d \in Owners /\ Value!Holds(s)
        /\ valueBar[s] = [size |-> owner[s].size, bytes |-> Contents(s)]
        /\ valueBar[d] = [size |-> owner[d].size, bytes |-> Contents(d)]
        /\ owner[s].size = owner[d].size
    BY <1>2, BarOfReady DEF CopyAccepts
  <2>2. valueBar' = [valueBar EXCEPT ![d].bytes = Contents(s)] /\ Answer("copy", TRUE, 0)
    BY <1>2, StoreBar DEF MemoryCopy, CopyAccepts
  <2>3. [valueBar[d] EXCEPT !.bytes = Contents(s)] = valueBar[s]
    BY <2>1
  <2>4. valueBar' = [valueBar EXCEPT ![d] = valueBar[s]]
    BY <2>2, <2>3
  <2>5. valueBar[d].size = valueBar[s].size
    BY <2>1
  <2>6. Value!Assign(s, d)
    BY <2>1, <2>2, <2>4, <2>5 DEF Answer, Value!Assign, Value!Succeed
  <2> QED  BY <2>1, <2>6
<1> QED  BY <1>1, <1>2 DEF MemoryCopy

LEMMA CloneValue ==
  ASSUME IInv, NEW s \in Arguments, NEW d \in Arguments, MemoryClone(s, d)
  PROVE  Refused("clone") \/ (s \in Owners /\ d \in Owners /\ Value!Assign(s, d))
<1>1. CASE Refuse("clone")
  BY <1>1, RefuseValue
<1>2. CASE CloneAccepts(s, d) /\ s = d /\ ~Refuse("clone")
  <2>1. s \in Owners /\ Value!Holds(s)
    BY <1>2, BarOfReady DEF CloneAccepts
  <2>2. Answer("clone", TRUE, 0) /\ UNCHANGED valueBar
    BY <1>2 DEF MemoryClone, valueBar, Contents
  <2>3. valueBar' = [valueBar EXCEPT ![d] = valueBar[s]]
    BY <1>2, <2>2 DEF valueBar
  <2>4. Value!Assign(s, d)
    BY <2>1, <2>2, <2>3 DEF Answer, Value!Assign, Value!Succeed
  <2> QED  BY <1>2, <2>1, <2>4
<1>3. CASE CloneAccepts(s, d) /\ s # d /\ ~Refuse("clone")
  <2>1. PICK b \in Unused :
          /\ heap' = [Released(owner[d].bytes) EXCEPT ![b] = Contents(s)]
          /\ owner' = [owner EXCEPT ![d] = [bytes |-> b, size |-> owner[s].size]]
          /\ Answer("clone", TRUE, 0)
    BY <1>3 DEF MemoryClone
  <2>2. d \in Owners
    BY <1>3 DEF CloneAccepts, Arguments
  <2>3. /\ s \in Owners /\ Value!Holds(s) /\ owner[s].size \in Nat
        /\ valueBar[s] = [size |-> owner[s].size, bytes |-> Contents(s)]
    BY <1>3, BarOfReady, ReadyOwner DEF CloneAccepts
  <2>4. valueBar' = [valueBar EXCEPT ![d] = valueBar[s]]
    <3>1. Replaces(d, b, owner[s].size, Contents(s))
      BY <2>1 DEF Replaces
    <3>2. BarReplaced(d, [size |-> owner[s].size, bytes |-> Contents(s)])
      BY <2>2, <2>3, <3>1, ReplaceBar
    <3> QED  BY <2>3, <3>2 DEF BarReplaced
  <2>5. Value!Assign(s, d)
    BY <2>1, <2>3, <2>4 DEF Answer, Value!Assign, Value!Succeed
  <2> QED  BY <2>2, <2>3, <2>5
<1> QED  BY <1>1, <1>2, <1>3 DEF MemoryClone

LEMMA WriteValue ==
  ASSUME IInv, NEW o \in Arguments, NEW a \in Addresses, NEW w \in Widths, NEW v \in Values,
         MemoryWrite(o, a, w, v)
  PROVE  Refused("write") \/ (o \in Owners /\ Value!Write(o, a, w, v))
<1>1. CASE Refuse("write")
  BY <1>1, RefuseValue
<1>2. CASE Accessible(o, a, w) /\ ~Refuse("write")
  <2> DEFINE g == WriteBytes(Contents(o), a, w, v)
  <2>1. /\ owner[o].size \in Nat /\ Contents(o) \in Arrays(owner[o].size)
        /\ AccessValid(owner[o].size, a, w) /\ a \in Nat /\ v \in Nat
        /\ o \in Owners /\ Value!Holds(o) /\ Ready(o)
        /\ valueBar[o] = [size |-> owner[o].size, bytes |-> Contents(o)]
    BY <1>2, ReadyOwner, BarOfReady, ArgumentsAssumption, WordIsNat DEF Accessible
  <2>2. valueBar' = [valueBar EXCEPT ![o].bytes = g]
    BY <1>2, <2>1, StoreBar DEF MemoryWrite
  <2>3. valueBar'[o] = [size |-> owner[o].size, bytes |-> g]
        /\ \A p \in Owners \ {o} : valueBar'[p] = valueBar[p]
    BY <2>1, <2>2 DEF valueBar
  <2>4. ReadBytes(g, a, w) = v % Place(w)
    BY <2>1, WriteThenRead
  <2>5. \A i \in DOMAIN Contents(o) \ (a .. a + w - 1) : g[i] = Contents(o)[i]
    BY DEF WriteBytes
  <2> HIDE DEF g
  <2>6. Value!Write(o, a, w, v)
    BY <1>2, <2>1, <2>3, <2>4, <2>5
    DEF MemoryWrite, Answer, Value!Write, Value!Succeed, Value!AccessValid, AccessValid,
        Value!SizeValid, SizeValid, Value!WordSize, WordSize, Value!ReadBytes, ReadBytes,
        Value!Place, Place, Value!ByteSize, ByteSize, Value!HalfwordSize, HalfwordSize
  <2> QED  BY <2>1, <2>6
<1> QED  BY <1>1, <1>2 DEF MemoryWrite

LEMMA MoveValue ==
  ASSUME IInv, NEW s \in Owners, NEW d \in Owners, MayMove(s, d), MemoryMove(s, d)
  PROVE  Value!Move(s, d)
<1>1. owner \in [Owners -> Memories] /\ heap' = heap
  BY DEF IInv, TypeOK, MemoryMove
<1>2. \A p \in Owners : owner'[p] = IF p = s THEN NoMemory
                                    ELSE IF p = d THEN owner[s] ELSE owner[p]
  BY <1>1 DEF MemoryMove, MayMove
<1>3. \A p \in Owners : valueBar'[p] = IF p = s THEN Value!Nothing
                                       ELSE IF p = d THEN valueBar[s] ELSE valueBar[p]
  BY <1>1, <1>2 DEF valueBar, Contents, NoMemory, Value!Nothing, NotAllocated
<1>4. valueBar = [p \in Owners |-> valueBar[p]] /\ valueBar' = [p \in Owners |-> valueBar'[p]]
  BY DEF valueBar
<1>5. valueBar' = [valueBar EXCEPT ![d] = valueBar[s], ![s] = Value!Nothing]
  BY <1>3, <1>4
<1>6. valueBar[d] = Value!Nothing
  BY BarOf DEF MayMove, NoMemory, Value!Nothing, NotAllocated
<1> QED  BY <1>5, <1>6 DEF Value!Move, MayMove, MemoryMove, Answer, Value!Succeed

LEMMA NextBar == IInv /\ [Next]_vars => [Value!Next]_(Value!vars)
<1> SUFFICES ASSUME IInv, [Next]_vars PROVE [Value!Next]_(Value!vars)
  OBVIOUS
<1>1. \A call \in {"init", "copy", "clone", "read", "write"} : Refuse(call) => Value!Fail
  BY RefuseValue DEF Refused, Value!Fail
<1>2. UNCHANGED <<heap, owner>> => UNCHANGED valueBar
  BY DEF valueBar, Contents
<1>3. ASSUME NEW o \in Arguments, NEW size \in Sizes, MemoryInit(o, size)
      PROVE  Value!Next
  BY <1>3, InitValue DEF Refused, Value!Fail, Value!Next
<1>4. ASSUME NEW o \in Arguments, MemoryDestroy(o)
      PROVE  Value!Next
  <2>1. CASE o = Null
    BY <1>2, <1>4, <2>1 DEF MemoryDestroy, Answer, Value!Ignore, Value!Succeed, Value!Next
  <2>2. CASE o # Null
    <3>1. o \in Owners
      BY <2>2 DEF Arguments
    <3>2. Value!Destroy(o)
      BY <1>4, <2>2, <3>1, ReleaseBar DEF MemoryDestroy, Answer, Value!Destroy, Value!Succeed
    <3> QED  BY <3>1, <3>2 DEF Value!Next
  <2> QED  BY <2>1, <2>2
<1>5. ASSUME NEW o \in Arguments, MemoryReset(o)
      PROVE  Value!Next
  <2>1. CASE Ready(o)
    <3>1. valueBar' = [valueBar EXCEPT ![o].bytes = Zeros(owner[o].size)]
      BY <1>5, <2>1, StoreBar DEF MemoryReset
    <3>2. o \in Owners /\ valueBar[o].size = owner[o].size
      <4>1. o \in Owners /\ valueBar[o] = [size |-> owner[o].size, bytes |-> Contents(o)]
        BY <2>1, BarOfReady
      <4> QED  BY <4>1
    <3>3. Value!Clear(o)
      BY <1>5, <3>1, <3>2 DEF MemoryReset, Answer, Value!Clear, Value!Succeed, Value!Zeros, Zeros
    <3> QED  BY <3>2, <3>3 DEF Value!Next
  <2>2. CASE ~Ready(o)
    BY <1>2, <1>5, <2>2 DEF MemoryReset, Answer, Value!Ignore, Value!Succeed, Value!Next
  <2> QED  BY <2>1, <2>2
<1>6. ASSUME NEW s \in Arguments, NEW d \in Arguments, MemoryCopy(s, d)
      PROVE  Value!Next
  BY <1>6, CopyValue DEF Refused, Value!Fail, Value!Next
<1>7. ASSUME NEW s \in Arguments, NEW d \in Arguments, MemoryClone(s, d)
      PROVE  Value!Next
  BY <1>7, CloneValue DEF Refused, Value!Fail, Value!Next
<1>8. ASSUME NEW o \in Arguments, NEW a \in Addresses, NEW w \in Widths,
             NEW pointer \in Pointers, MemoryRead(o, a, w, pointer)
      PROVE  Value!Next
  <2>1. CASE Refuse("read")
    BY <1>1, <2>1 DEF Value!Next
  <2>2. CASE Accessible(o, a, w) /\ ~Refuse("read")
    <3>1. /\ owner[o].size \in Nat /\ Contents(o) \in Arrays(owner[o].size)
          /\ AccessValid(owner[o].size, a, w) /\ a \in Nat
          /\ o \in Owners /\ Value!Holds(o)
          /\ valueBar[o] = [size |-> owner[o].size, bytes |-> Contents(o)]
      BY <2>2, ReadyOwner, BarOfReady, ArgumentsAssumption DEF Accessible
    <3>2. Value!StandsFor(ReadBytes(Contents(o), a, w), Contents(o), a, w)
      BY <3>1, ReadIsLittleEndian DEF Value!StandsFor, Value!Place, Value!ByteOf, Place, ByteOf
    <3>3. Value!Read(o, a, w)
      BY <1>2, <1>8, <2>2, <3>1, <3>2
      DEF MemoryRead, Answer, Value!Read, Value!AccessValid, AccessValid,
          Value!SizeValid, SizeValid, Value!WordSize, WordSize
    <3> QED  BY <3>1, <3>3 DEF Value!Next, Value!Widths, Widths, Value!ByteSize, ByteSize,
          Value!HalfwordSize, HalfwordSize, Value!WordSize, WordSize
  <2> QED  BY <1>8, <2>1, <2>2 DEF MemoryRead
<1>9. ASSUME NEW o \in Arguments, NEW a \in Addresses, NEW w \in Widths, NEW v \in Values,
             MemoryWrite(o, a, w, v)
      PROVE  Value!Next
  <2>1. CASE Refused("write")
    BY <2>1 DEF Refused, Value!Fail, Value!Next
  <2>2. CASE o \in Owners /\ Value!Write(o, a, w, v)
    BY <2>2 DEF Value!Next, Value!Widths, Widths, Value!ByteSize, ByteSize,
       Value!HalfwordSize, HalfwordSize, Value!WordSize, WordSize
  <2> QED  BY <1>9, <2>1, <2>2, WriteValue
<1>10. ASSUME UNCHANGED vars PROVE UNCHANGED Value!vars
  BY <1>2, <1>10 DEF vars, Value!vars
<1>11. ASSUME NEW s \in Arguments \ {Null}, NEW d \in Arguments \ {Null},
              MayMove(s, d), MemoryMove(s, d)
       PROVE  Value!Next
  BY <1>11, MoveValue DEF Arguments, Value!Next
<1> QED  BY <1>3, <1>4, <1>5, <1>6, <1>7, <1>8, <1>9, <1>10, <1>11 DEF Next, CallWith

\* memory.c implements independent values, whatever the size of the RAM, the
\* width of a byte and the number of owners.
THEOREM MemoryImplementsValue == Spec => ImplementsValue
<1>1. Init => Value!Init
  BY InitBar
<1>2. IInv /\ [Next]_vars => [Value!Next]_(Value!vars)
  BY NextBar
<1> QED  BY <1>1, <1>2, MemoryInvariant, PTL DEF Spec, ImplementsValue, Value!Spec
-----------------------------------------------------------------------------
(* The images of a machine.  Every step of MachineImages is a call of Memory or *)
(* leaves the heap alone, so IInv holds; the rest is said of the values.        *)

Places == {"rest", "move pristine"} \cup Undecided \cup Decided
Loading == load.source # Null /\ ~At("rest")
Copied(o) == valueBar[o] = before.source

\* Where machine_load has got to, and what its local structure holds there.
LoadTypes ==
  /\ loaded \in BOOLEAN
  /\ load \in [at : Places, source : Sources \cup {Null}, result : {"none", "failed", "loaded"}]

Paired == IF loaded THEN valueBar[Ram].size # 0 /\ valueBar[Pristine].size = valueBar[Ram].size
                    ELSE Empty(Ram) /\ Empty(Pristine)

OldImages ==
  /\ At("rest") \/ load.at \in Undecided => Paired
  /\ At("destroy pristine") \/ At("move ram") => Empty(Ram)
  /\ At("move ram") \/ At("move pristine") => Empty(Pristine)

NextImages ==
  /\ load.at \in Undecided \cup {"move ram", "move pristine"} => load.source # Null
  /\ load.at \in {"clone ram", "clone pristine"} => Copied(load.source)
  /\ Loading => before.source.size # 0
  /\ IF Loading /\ load.at \in Decided \cup {"clone pristine"} THEN Copied(NextRam)
                                                   ELSE At("undo ram") \/ Empty(NextRam)
  /\ IF Loading /\ load.at \in Decided \cup {"move pristine"} THEN Copied(NextPristine)
                                                             ELSE Empty(NextPristine)
  /\ At("move pristine") => Copied(Ram)
  /\ At("rest") /\ load.result = "loaded" => Copied(Ram) /\ Copied(Pristine)

IImages == IInv /\ LoadTypes /\ OldImages /\ NextImages /\ OldMachineKept

LEMMA Images ==
  /\ Sources \subseteq Owners /\ Sources \subseteq Arguments \ {Null}
  /\ {Ram, Pristine, NextRam, NextPristine} \subseteq Owners
  /\ {Ram, Pristine, NextRam, NextPristine} \subseteq Arguments \ {Null}
  /\ Programs \cap {Ram, Pristine, NextRam, NextPristine} = {}
  /\ Ram # Pristine /\ NextRam # NextPristine
  /\ {Ram, Pristine} \cap {NextRam, NextPristine} = {}
  BY ImagesAssumption, NullAssumption DEF Sources, Arguments

\* The value of owner o becomes v.
Becomes(o, v) == \A p \in Owners : valueBar'[p] = IF p = o THEN v ELSE valueBar[p]

LEMMA BarIsFunction == valueBar = [p \in Owners |-> valueBar[p]]
  BY DEF valueBar

LEMMA AssignEffect ==
  ASSUME NEW s \in Owners, NEW d \in Owners, Value!Assign(s, d)
  PROVE  ret'.ok /\ Becomes(d, valueBar[s]) /\ valueBar[s].size # 0
  BY BarIsFunction DEF Value!Assign, Value!Succeed, Value!Holds, Becomes

LEMMA CloneEffect ==
  ASSUME IInv, NEW s \in Arguments, NEW d \in Arguments, MemoryClone(s, d)
  PROVE  (~ret'.ok /\ UNCHANGED valueBar) \/ (ret'.ok /\ Becomes(d, valueBar[s]))
  BY CloneValue, AssignEffect DEF Refused

LEMMA CopyEffect ==
  ASSUME IInv, NEW s \in Arguments, NEW d \in Arguments, MemoryCopy(s, d)
  PROVE  UNCHANGED valueBar \/ (Becomes(d, valueBar[s]) /\ valueBar[s].size # 0)
  BY CopyValue, AssignEffect DEF Refused

LEMMA DestroyEffect ==
  ASSUME IInv, NEW o \in Owners, MemoryDestroy(o)
  PROVE  Becomes(o, Value!Nothing)
<1>1. o # Null
  BY NullAssumption
<1>2. valueBar' = [valueBar EXCEPT ![o] = Value!Nothing]
  BY <1>1, ReleaseBar DEF MemoryDestroy
<1> QED  BY <1>2, BarIsFunction DEF Becomes

LEMMA StoreEffect ==
  ASSUME IInv, NEW o \in Owners, StoreWord(o)
  PROVE  /\ \A p \in Owners : p # o => valueBar'[p] = valueBar[p]
         /\ valueBar'[o].size = valueBar[o].size
<1>1. PICK a \in Addresses, v \in Values : MemoryWrite(o, a, WordSize, v)
  BY DEF StoreWord
<1>2. WordSize \in Widths /\ o \in Arguments
  BY DEF Widths, Arguments
<1>3. Refused("write") \/ Value!Write(o, a, WordSize, v)
  BY <1>1, <1>2, WriteValue
<1> QED  BY <1>3 DEF Refused, Value!Write

LEMMA BuildEffect ==
  ASSUME IInv, NEW o \in Owners, NEW size \in Sizes, MemoryInit(o, size)
  PROVE  \A p \in Owners : p # o => valueBar'[p] = valueBar[p]
  BY InitValue, BarIsFunction DEF Arguments, Refused, Value!Create

LEMMA EmptyOwner ==
  ASSUME IInv, NEW o \in Owners
  PROVE  /\ Empty(o) => owner[o] = NoMemory
         /\ valueBar[o].size # 0 => Ready(o)
         /\ valueBar[o].size = owner[o].size
<1>1. /\ valueBar[o].size = owner[o].size /\ o # Null
      /\ owner[o] \in Memories /\ owner[o].size \in Nat
  <2>1. owner[o] \in Memories
    BY DEF IInv, TypeOK
  <2>2. valueBar[o].size = owner[o].size
    BY DEF valueBar
  <2> QED  BY <2>1, <2>2, NullAssumption DEF Memories
<1>2. owner[o].bytes # Null => SizeValid(owner[o].size) /\ owner[o].size # 0
  <2>1. owner[o].bytes # Null => SizeValid(owner[o].size)
    BY DEF IInv, NoDangling
  <2> QED  BY <1>1, <2>1, ValidSize
<1>3. owner[o].bytes = Null => owner[o].size = 0
  BY DEF IInv, NoDangling
<1>4. Empty(o) => owner[o] = NoMemory
  BY <1>1, <1>2, <1>3 DEF Empty, Value!Nothing, NoMemory, Memories
<1> QED  BY <1>1, <1>2, <1>3, <1>4 DEF Ready

LEMMA InitImages == ImagesInit => IImages
<1> SUFFICES ASSUME ImagesInit PROVE IImages
  OBVIOUS
<1>1. IInv /\ \A o \in Owners : Empty(o)
  BY InitIInv, BarOf DEF ImagesInit, Init, NoMemory, Empty, Value!Nothing, NotAllocated
<1>2. load = [at |-> "rest", source |-> Null, result |-> "none"] /\ loaded = FALSE
  BY DEF ImagesInit, AtRest
<1> QED
  BY <1>1, <1>2, Images DEF IImages, LoadTypes, OldImages, NextImages, OldMachineKept, Places,
     Undecided, Decided, Paired, Loading, At

\* Every step is a call of memory.c, or it changes no pointer and no block.
LEMMA ImagesCallMemory == IImages /\ ImagesNext => Next \/ UNCHANGED <<heap, owner, ret>>
                                                       \/ GiveUp
<1> SUFFICES ASSUME IImages, ImagesNext, ~GiveUp
             PROVE  CallWith(Arguments) \/ UNCHANGED <<heap, owner, ret>>
  BY DEF Next
<1> USE Images
<1>1. CASE \E s \in Sources : LoadStart(s)
  BY <1>1 DEF LoadStart
<1>2. CASE CloneRam \/ ClonePristine
  <2>1. load.source \in Arguments
    BY <1>2 DEF CloneRam, ClonePristine, At, IImages, NextImages, LoadTypes, Undecided, Arguments
  <2> QED  BY <1>2, <2>1 DEF CloneRam, ClonePristine, CallWith
<1>3. CASE UndoRam \/ UndoPristine \/ DestroyRam \/ DestroyPristine
  BY <1>3 DEF UndoRam, UndoPristine, DestroyRam, DestroyPristine, CallWith
<1>4. CASE DestroyStart
  BY <1>4 DEF DestroyStart
<1>5. CASE MoveRam \/ MovePristine
  <2>1. CASE MoveRam
    <3>1. Empty(Ram) /\ NextRam # Ram
      BY <2>1 DEF MoveRam, IImages, OldImages
    <3>2. MayMove(NextRam, Ram)
      BY <3>1, EmptyOwner DEF MayMove, IImages
    <3> QED  BY <2>1, <3>2 DEF MoveRam, CallWith
  <2>2. CASE MovePristine
    <3>1. Empty(Pristine) /\ NextPristine # Pristine
      BY <2>2 DEF MovePristine, IImages, OldImages
    <3>2. MayMove(NextPristine, Pristine)
      BY <3>1, EmptyOwner DEF MayMove, IImages
    <3> QED  BY <2>2, <3>2 DEF MovePristine, CallWith
  <2> QED  BY <1>5, <2>1, <2>2
<1>6. CASE \E s \in Programs : BuildProgram(s) \/ DestroyProgram(s)
  BY <1>6 DEF BuildProgram, DestroyProgram, StoreWord, CallWith, Sources, Widths
<1>7. CASE GuestStore \/ ResetRam
  BY <1>7 DEF GuestStore, ResetRam, StoreWord, CallWith, Widths
<1> QED  BY <1>1, <1>2, <1>3, <1>4, <1>5, <1>6, <1>7 DEF ImagesNext

\* When machine_load gives up, its local structure holds nothing any more.
LEMMA GiveUpForgetsNothing == IImages /\ GiveUp => UNCHANGED <<heap, owner, ret>>
<1> SUFFICES ASSUME IImages, GiveUp PROVE UNCHANGED <<heap, owner, ret>>
  OBVIOUS
<1>1. Empty(NextRam) /\ Empty(NextPristine)
  BY DEF GiveUp, IImages, NextImages, At, Decided
<1>2. owner[NextRam] = NoMemory /\ owner[NextPristine] = NoMemory
  BY <1>1, EmptyOwner, Images DEF IImages
<1> QED  BY <1>2 DEF GiveUp, IImages, IInv, TypeOK

LEMMA ImagesIInv == IImages /\ [ImagesNext]_imageVars => IInv'
<1>1. IImages /\ ImagesNext => Next \/ UNCHANGED <<heap, owner, ret>>
  BY ImagesCallMemory, GiveUpForgetsNothing
<1> QED  BY <1>1, NextIInv DEF IImages, vars, imageVars

\* Outside a load the program of a caller may change, and the RAM with its size.
LEMMA OtherCallKeepsImages ==
  ASSUME IImages, OtherCall, UNCHANGED loaded,
         valueBar'[NextRam] = valueBar[NextRam], valueBar'[NextPristine] = valueBar[NextPristine],
         valueBar'[Pristine] = valueBar[Pristine],
         valueBar'[Ram] = valueBar[Ram] \/ (loaded /\ valueBar'[Ram].size = valueBar[Ram].size)
  PROVE  (LoadTypes /\ OldImages /\ NextImages /\ OldMachineKept)'
<1>1. load' = [at |-> "rest", source |-> Null, result |-> "none"] /\ At("rest")
  BY DEF OtherCall, AtRest
<1>2. Paired /\ Empty(NextRam) /\ Empty(NextPristine)
  BY <1>1 DEF IImages, OldImages, NextImages, At, Loading
<1>3. LoadTypes'
  BY <1>1 DEF IImages, LoadTypes, Places
<1>4. Paired'
  BY <1>2 DEF Paired, Empty
<1>5. OldImages' /\ OldMachineKept'
  BY <1>1, <1>4 DEF OldImages, OldMachineKept, At, Undecided
<1>6. NextImages'
  BY <1>1, <1>2 DEF NextImages, At, Loading, Undecided, Decided, Empty
<1> QED  BY <1>3, <1>5, <1>6

\* The rest of the invariant, one action at a time.
LEMMA LoadKeepsImages ==
  ASSUME IImages,
         (\E s \in Sources : LoadStart(s)) \/ CloneRam \/ ClonePristine
         \/ UndoRam \/ UndoPristine \/ GiveUp
  PROVE  (LoadTypes /\ OldImages /\ NextImages /\ OldMachineKept)'
<1> USE Images DEF At
<1>0. /\ IInv /\ LoadTypes /\ OldImages /\ NextImages /\ OldMachineKept
  BY DEF IImages
<1>1. ASSUME NEW s \in Sources, LoadStart(s)
      PROVE  (LoadTypes /\ OldImages /\ NextImages /\ OldMachineKept)'
  <2>1. /\ UNCHANGED valueBar /\ UNCHANGED loaded /\ s # Null
        /\ load.at = "rest" /\ s \in Owners
        /\ \/ load' = [at |-> "rest", source |-> s, result |-> "failed"]
           \/ Ready(s) /\ load' = [at |-> "clone ram", source |-> s, result |-> "none"]
    BY <1>1 DEF LoadStart, valueBar, Contents
  <2>2. before' = [ram |-> valueBar[Ram], pristine |-> valueBar[Pristine], source |-> valueBar[s]]
    BY <1>1 DEF LoadStart
  <2>3. Ready(s) => valueBar[s].size # 0
    BY <1>0, <2>1, BarOfReady DEF Value!Holds
  <2>4. Paired' /\ Empty(NextRam)' /\ Empty(NextPristine)'
    BY <1>0, <2>1 DEF OldImages, NextImages, Paired, Empty, Loading
  <2>5. /\ before'.ram = valueBar'[Ram] /\ before'.pristine = valueBar'[Pristine]
        /\ before'.source = valueBar'[s]
    BY <2>1, <2>2
  <2>6. CASE load' = [at |-> "rest", source |-> s, result |-> "failed"]
    <3>1. load'.at = "rest" /\ load'.result = "failed" /\ load'.source = s
      BY <2>6
    <3>2. LoadTypes'
      BY <1>0, <2>1, <2>6 DEF LoadTypes, Places
    <3>3. OldImages' /\ OldMachineKept'
      BY <2>4, <2>5, <3>1 DEF OldImages, OldMachineKept, Undecided
    <3>4. NextImages'
      BY <2>4, <3>1 DEF NextImages, Loading, Undecided, Decided
    <3> QED  BY <3>2, <3>3, <3>4
  <2>7. CASE Ready(s) /\ load' = [at |-> "clone ram", source |-> s, result |-> "none"]
    <3>1. load'.at = "clone ram" /\ load'.source = s
      BY <2>7
    <3>2. LoadTypes'
      BY <1>0, <2>1, <2>7 DEF LoadTypes, Places, Undecided
    <3>3. OldImages' /\ OldMachineKept'
      BY <2>4, <2>5, <3>1 DEF OldImages, OldMachineKept, Undecided
    <3>4. Copied(load.source)' /\ before'.source.size # 0
      BY <2>1, <2>3, <2>5, <2>7, <3>1 DEF Copied
    <3>5. NextImages'
      BY <2>1, <2>4, <3>1, <3>4 DEF NextImages, Loading, Undecided, Decided
    <3> QED  BY <3>2, <3>3, <3>5
  <2> QED  BY <2>1, <2>6, <2>7
<1>2. ASSUME CloneRam
      PROVE  (LoadTypes /\ OldImages /\ NextImages /\ OldMachineKept)'
  <2>1. /\ load.at = "clone ram" /\ UNCHANGED <<loaded, before>>
        /\ load' = [load EXCEPT !.at = IF ret'.ok THEN "clone pristine" ELSE "undo ram"]
        /\ load.source \in Sources
    BY <1>0, <1>2 DEF CloneRam, Goes, GoTo, NextImages, LoadTypes, Undecided
  <2>2. \/ ~ret'.ok /\ UNCHANGED valueBar
        \/ ret'.ok /\ Becomes(NextRam, valueBar[load.source])
    BY <1>0, <1>2, <2>1, CloneEffect DEF CloneRam
  <2>3. Copied(load.source) /\ Empty(NextRam) /\ Empty(NextPristine) /\ Paired
        /\ before.source.size # 0
        /\ valueBar[Ram] = before.ram /\ valueBar[Pristine] = before.pristine
    BY <1>0, <2>1 DEF NextImages, OldImages, OldMachineKept, Loading, Undecided, Decided
  <2>4. /\ load'.at \in {"clone pristine", "undo ram"}
        /\ load'.source = load.source /\ load.source # Null
    BY <1>0, <2>1 DEF LoadTypes
  <2>5. LoadTypes'
    BY <1>0, <2>1, <2>4 DEF LoadTypes, Places, Undecided
  <2>6. valueBar'[Ram] = valueBar[Ram] /\ valueBar'[Pristine] = valueBar[Pristine]
        /\ valueBar'[NextPristine] = valueBar[NextPristine]
    BY <2>2 DEF Becomes
  <2>7. load.source # NextRam
    BY <2>1 DEF Sources
  <2>8. Copied(load.source)'
    BY <2>1, <2>2, <2>3, <2>4, <2>7 DEF Becomes, Copied
  <2>9. load'.at = "clone pristine" => Copied(NextRam)'
    BY <1>0, <2>1, <2>2, <2>3 DEF Becomes, Copied, LoadTypes
  <2>10. OldImages' /\ OldMachineKept'
    BY <2>1, <2>3, <2>4, <2>6 DEF OldImages, OldMachineKept, Undecided, Paired, Empty
  <2>11. NextImages'
    BY <2>1, <2>3, <2>4, <2>6, <2>8, <2>9 DEF NextImages, Loading, Undecided, Decided, Empty
  <2> QED  BY <2>5, <2>10, <2>11
<1>3. ASSUME ClonePristine
      PROVE  (LoadTypes /\ OldImages /\ NextImages /\ OldMachineKept)'
  <2>1. /\ load.at = "clone pristine" /\ UNCHANGED <<loaded, before>>
        /\ load' = [load EXCEPT !.at = IF ret'.ok THEN "destroy ram" ELSE "undo ram"]
        /\ load.source \in Sources
    BY <1>0, <1>3 DEF ClonePristine, Goes, GoTo, NextImages, LoadTypes, Undecided
  <2>2. \/ ~ret'.ok /\ UNCHANGED valueBar
        \/ ret'.ok /\ Becomes(NextPristine, valueBar[load.source])
    BY <1>0, <1>3, <2>1, CloneEffect DEF ClonePristine
  <2>3. Copied(load.source) /\ Copied(NextRam) /\ Empty(NextPristine) /\ Paired
        /\ before.source.size # 0
        /\ valueBar[Ram] = before.ram /\ valueBar[Pristine] = before.pristine
    BY <1>0, <2>1 DEF NextImages, OldImages, OldMachineKept, Loading, Undecided, Decided
  <2>4. /\ load'.at = IF ret'.ok THEN "destroy ram" ELSE "undo ram"
        /\ load'.source = load.source /\ load.source # Null
    BY <1>0, <2>1 DEF LoadTypes
  <2>5. LoadTypes'
    BY <1>0, <2>1, <2>4 DEF LoadTypes, Places, Undecided, Decided
  <2>6. valueBar'[Ram] = valueBar[Ram] /\ valueBar'[Pristine] = valueBar[Pristine]
        /\ valueBar'[NextRam] = valueBar[NextRam]
    BY <2>2 DEF Becomes
  <2>7. CASE ret'.ok
    <3>1. load'.at = "destroy ram" /\ Copied(NextPristine)'
      BY <2>1, <2>2, <2>3, <2>4, <2>7 DEF Becomes, Copied
    <3>2. OldImages' /\ OldMachineKept'
      BY <3>1 DEF OldImages, OldMachineKept, Undecided
    <3>3. NextImages'
      BY <2>1, <2>3, <2>4, <2>6, <3>1 DEF NextImages, Loading, Undecided, Decided, Copied
    <3> QED  BY <2>5, <3>2, <3>3
  <2>8. CASE ~ret'.ok
    <3>1. load'.at = "undo ram" /\ Empty(NextPristine)'
      BY <2>2, <2>3, <2>4, <2>8 DEF Empty
    <3>2. OldImages' /\ OldMachineKept'
      BY <2>1, <2>3, <2>6, <3>1 DEF OldImages, OldMachineKept, Undecided, Paired, Empty
    <3>3. NextImages'
      BY <2>1, <2>3, <2>4, <3>1 DEF NextImages, Loading, Undecided, Decided
    <3> QED  BY <2>5, <3>2, <3>3
  <2> QED  BY <2>7, <2>8
<1>4. ASSUME UndoRam \/ UndoPristine
      PROVE  (LoadTypes /\ OldImages /\ NextImages /\ OldMachineKept)'
  <2>1. /\ load.at \in {"undo ram", "undo pristine"} /\ UNCHANGED <<loaded, before>>
        /\ load' = [load EXCEPT !.at = IF load.at = "undo ram" THEN "undo pristine" ELSE "give up"]
    BY <1>4 DEF UndoRam, UndoPristine, Goes, GoTo
  <2>2. /\ load.at = "undo ram" => Becomes(NextRam, Value!Nothing)
        /\ load.at = "undo pristine" => Becomes(NextPristine, Value!Nothing)
    BY <1>0, <1>4, DestroyEffect DEF UndoRam, UndoPristine
  <2>3. /\ load.at = "undo pristine" => Empty(NextRam)
        /\ Empty(NextPristine) /\ Paired /\ load.source # Null
        /\ before.source.size # 0
        /\ valueBar[Ram] = before.ram /\ valueBar[Pristine] = before.pristine
    BY <1>0, <2>1 DEF NextImages, OldImages, OldMachineKept, Loading, Undecided, Decided
  <2>4. /\ load'.at \in {"undo pristine", "give up"} /\ load'.source = load.source
    BY <1>0, <2>1 DEF LoadTypes
  <2>5. LoadTypes'
    BY <1>0, <2>1, <2>4 DEF LoadTypes, Places, Undecided
  <2>6. valueBar'[Ram] = valueBar[Ram] /\ valueBar'[Pristine] = valueBar[Pristine]
    BY <2>1, <2>2 DEF Becomes
  <2>7. Empty(NextRam)' /\ Empty(NextPristine)'
    BY <2>1, <2>2, <2>3 DEF Becomes, Empty
  <2>8. OldImages' /\ OldMachineKept'
    BY <2>1, <2>3, <2>4, <2>6 DEF OldImages, OldMachineKept, Undecided, Paired, Empty
  <2>9. NextImages'
    BY <2>1, <2>3, <2>4, <2>6, <2>7 DEF NextImages, Loading, Undecided, Decided
  <2> QED  BY <2>5, <2>8, <2>9
<1>5. ASSUME GiveUp
      PROVE  (LoadTypes /\ OldImages /\ NextImages /\ OldMachineKept)'
  <2>1. /\ load.at = "give up" /\ UNCHANGED <<loaded, before>>
        /\ load' = [load EXCEPT !.at = "rest", !.result = "failed"]
    BY <1>5 DEF GiveUp
  <2>2. UNCHANGED valueBar
    BY <1>5, GiveUpForgetsNothing DEF valueBar, Contents
  <2>3. /\ Empty(NextRam) /\ Empty(NextPristine) /\ Paired
        /\ valueBar[Ram] = before.ram /\ valueBar[Pristine] = before.pristine
    BY <1>0, <2>1 DEF NextImages, OldImages, OldMachineKept, Undecided, Decided
  <2>4. load'.at = "rest" /\ load'.result = "failed"
    BY <1>0, <2>1 DEF LoadTypes
  <2>5. LoadTypes'
    BY <1>0, <2>1 DEF LoadTypes, Places
  <2>6. OldImages' /\ OldMachineKept'
    BY <2>1, <2>2, <2>3, <2>4 DEF OldImages, OldMachineKept, Undecided, Paired, Empty
  <2>7. NextImages'
    BY <2>2, <2>3, <2>4 DEF NextImages, Loading, Undecided, Decided, Empty
  <2> QED  BY <2>5, <2>6, <2>7
<1> QED  BY <1>1, <1>2, <1>3, <1>4, <1>5

LEMMA ReplaceKeepsImages ==
  ASSUME IImages,
         DestroyStart \/ DestroyRam \/ DestroyPristine \/ MoveRam \/ MovePristine
  PROVE  (LoadTypes /\ OldImages /\ NextImages /\ OldMachineKept)'
<1> USE Images DEF At
<1>0. /\ IInv /\ LoadTypes /\ OldImages /\ NextImages /\ OldMachineKept
  BY DEF IImages
<1>1. ASSUME DestroyStart
      PROVE  (LoadTypes /\ OldImages /\ NextImages /\ OldMachineKept)'
  <2>1. /\ load.at = "rest" /\ UNCHANGED <<loaded, before, valueBar>>
        /\ load' = [at |-> "destroy ram", source |-> Null, result |-> "none"]
    BY <1>1 DEF DestroyStart, AtRest, valueBar, Contents
  <2>2. Empty(NextRam) /\ Empty(NextPristine)
    BY <1>0, <2>1 DEF NextImages, Loading
  <2>3. LoadTypes'
    BY <1>0, <2>1 DEF LoadTypes, Places, Decided
  <2>4. OldImages' /\ OldMachineKept'
    BY <2>1 DEF OldImages, OldMachineKept, Undecided
  <2>5. NextImages'
    BY <2>1, <2>2 DEF NextImages, Loading, Undecided, Decided, Empty
  <2> QED  BY <2>3, <2>4, <2>5
<1>2. ASSUME DestroyRam
      PROVE  (LoadTypes /\ OldImages /\ NextImages /\ OldMachineKept)'
  <2>1. /\ load.at = "destroy ram" /\ UNCHANGED <<loaded, before>>
        /\ load' = [load EXCEPT !.at = "destroy pristine"] /\ Becomes(Ram, Value!Nothing)
    BY <1>0, <1>2, DestroyEffect DEF DestroyRam, Goes, GoTo
  <2>2. /\ load'.at = "destroy pristine" /\ load'.source = load.source
        /\ Empty(Ram)' /\ valueBar'[NextRam] = valueBar[NextRam]
        /\ valueBar'[NextPristine] = valueBar[NextPristine]
    BY <1>0, <2>1 DEF LoadTypes, Becomes, Empty
  <2>3. LoadTypes'
    BY <1>0, <2>1 DEF LoadTypes, Places, Decided
  <2>4. OldImages' /\ OldMachineKept'
    BY <2>2 DEF OldImages, OldMachineKept, Undecided
  <2>5. NextImages'
    BY <1>0, <2>1, <2>2 DEF NextImages, Loading, Undecided, Decided, Empty, Copied
  <2> QED  BY <2>3, <2>4, <2>5
<1>3. ASSUME DestroyPristine
      PROVE  (LoadTypes /\ OldImages /\ NextImages /\ OldMachineKept)'
  <2>1. /\ load.at = "destroy pristine" /\ UNCHANGED before /\ loaded' = FALSE
        /\ load' = IF load.source = Null THEN AtRest("none") ELSE [load EXCEPT !.at = "move ram"]
        /\ Becomes(Pristine, Value!Nothing)
    BY <1>0, <1>3, DestroyEffect DEF DestroyPristine
  <2>2. /\ Empty(Pristine)' /\ Empty(Ram)'
        /\ valueBar'[NextRam] = valueBar[NextRam]
        /\ valueBar'[NextPristine] = valueBar[NextPristine]
    BY <1>0, <2>1 DEF OldImages, Becomes, Empty
  <2>3. CASE load.source = Null
    <3>0. load' = [at |-> "rest", source |-> Null, result |-> "none"]
      BY <2>1, <2>3 DEF AtRest
    <3>1. load'.at = "rest" /\ load'.source = Null /\ load'.result = "none"
      BY <3>0
    <3>2. Empty(NextRam)' /\ Empty(NextPristine)'
      BY <1>0, <2>1, <2>2, <2>3 DEF NextImages, Loading, Empty
    <3>3. LoadTypes'
      <4>1. loaded' \in BOOLEAN
        BY <2>1
      <4> QED  BY <3>0, <4>1 DEF LoadTypes, Places
    <3>4. OldImages' /\ OldMachineKept'
      BY <2>1, <2>2, <3>1 DEF OldImages, OldMachineKept, Undecided, Paired
    <3>5. NextImages'
      BY <3>1, <3>2 DEF NextImages, Loading, Undecided, Decided
    <3> QED  BY <3>3, <3>4, <3>5
  <2>4. CASE load.source # Null
    <3>1. load' = [load EXCEPT !.at = "move ram"] /\ load'.at = "move ram"
          /\ load'.source = load.source
      BY <1>0, <2>1, <2>4 DEF LoadTypes
    <3>2. LoadTypes'
      BY <1>0, <2>1, <3>1 DEF LoadTypes, Places, Decided
    <3>3. OldImages' /\ OldMachineKept'
      BY <2>2, <3>1 DEF OldImages, OldMachineKept, Undecided
    <3>4. NextImages'
      BY <1>0, <2>1, <2>2, <2>4, <3>1 DEF NextImages, Loading, Undecided, Decided, Copied
    <3> QED  BY <3>2, <3>3, <3>4
  <2> QED  BY <2>3, <2>4
<1>4. ASSUME MoveRam
      PROVE  (LoadTypes /\ OldImages /\ NextImages /\ OldMachineKept)'
  <2>1. /\ load.at = "move ram" /\ UNCHANGED <<loaded, before>>
        /\ load' = [load EXCEPT !.at = "move pristine"]
        /\ Empty(Ram) /\ Empty(Pristine) /\ load.source # Null /\ before.source.size # 0
        /\ Copied(NextRam) /\ Copied(NextPristine)
    BY <1>0, <1>4 DEF MoveRam, Goes, GoTo, OldImages, NextImages, Loading, Decided
  <2>2. MayMove(NextRam, Ram)
    BY <1>0, <2>1, EmptyOwner DEF MayMove
  <2>3. Value!Move(NextRam, Ram)
    BY <1>0, <1>4, <2>2, MoveValue DEF MoveRam
  <2>4. /\ valueBar'[Ram] = valueBar[NextRam] /\ valueBar'[NextRam] = Value!Nothing
        /\ valueBar'[Pristine] = valueBar[Pristine]
        /\ valueBar'[NextPristine] = valueBar[NextPristine]
    BY <2>3, BarIsFunction DEF Value!Move
  <2>5. load'.at = "move pristine" /\ load'.source = load.source
    BY <1>0, <2>1 DEF LoadTypes
  <2>6. LoadTypes'
    BY <1>0, <2>1 DEF LoadTypes, Places
  <2>7. OldImages' /\ OldMachineKept'
    BY <2>1, <2>4, <2>5 DEF OldImages, OldMachineKept, Undecided, Empty
  <2>8. NextImages'
    BY <2>1, <2>4, <2>5 DEF NextImages, Loading, Undecided, Decided, Copied, Empty
  <2> QED  BY <2>6, <2>7, <2>8
<1>5. ASSUME MovePristine
      PROVE  (LoadTypes /\ OldImages /\ NextImages /\ OldMachineKept)'
  <2>1. /\ load.at = "move pristine" /\ UNCHANGED before /\ loaded' = TRUE
        /\ load' = [load EXCEPT !.at = "rest", !.result = "loaded"]
        /\ Copied(Ram) /\ Empty(Pristine) /\ load.source # Null /\ before.source.size # 0
        /\ Empty(NextRam) /\ Copied(NextPristine)
    BY <1>0, <1>5 DEF MovePristine, OldImages, NextImages, Loading, Decided
  <2>2. MayMove(NextPristine, Pristine)
    BY <1>0, <2>1, EmptyOwner DEF MayMove
  <2>3. Value!Move(NextPristine, Pristine)
    BY <1>0, <1>5, <2>2, MoveValue DEF MovePristine
  <2>4. /\ valueBar'[Pristine] = valueBar[NextPristine]
        /\ valueBar'[NextPristine] = Value!Nothing
        /\ valueBar'[Ram] = valueBar[Ram] /\ valueBar'[NextRam] = valueBar[NextRam]
    BY <2>3, BarIsFunction DEF Value!Move
  <2>5. load'.at = "rest" /\ load'.result = "loaded"
    BY <1>0, <2>1 DEF LoadTypes
  <2>6. LoadTypes'
    BY <1>0, <2>1 DEF LoadTypes, Places
  <2>7. Copied(Ram)' /\ Copied(Pristine)' /\ Empty(NextRam)' /\ Empty(NextPristine)'
    BY <2>1, <2>4 DEF Copied, Empty
  <2>8. OldImages' /\ OldMachineKept'
    BY <2>1, <2>5, <2>7 DEF OldImages, OldMachineKept, Undecided, Paired, Copied
  <2>9. NextImages'
    BY <2>5, <2>7 DEF NextImages, Loading, Undecided, Decided
  <2> QED  BY <2>6, <2>8, <2>9
<1> QED  BY <1>1, <1>2, <1>3, <1>4, <1>5

LEMMA StepKeepsImages == IImages /\ ImagesNext => IImages'
<1> SUFFICES ASSUME IImages, ImagesNext
             PROVE  (LoadTypes /\ OldImages /\ NextImages /\ OldMachineKept)'
  BY ImagesIInv DEF IImages
<1> USE Images
<1>0. IInv
  BY DEF IImages
<1>1. ASSUME NEW s \in Programs, BuildProgram(s) \/ DestroyProgram(s)
      PROVE  (LoadTypes /\ OldImages /\ NextImages /\ OldMachineKept)'
  <2>1. s \in Owners /\ s \notin {Ram, Pristine, NextRam, NextPristine}
    BY DEF Sources
  <2>2. \A p \in Owners : p # s => valueBar'[p] = valueBar[p]
    BY <1>0, <1>1, <2>1, BuildEffect, StoreEffect, DestroyEffect
    DEF BuildProgram, DestroyProgram, Becomes
  <2>3. OtherCall /\ UNCHANGED loaded
    BY <1>1 DEF BuildProgram, DestroyProgram, OtherCall
  <2> QED  BY <2>1, <2>2, <2>3, OtherCallKeepsImages
<1>2. CASE GuestStore
  <2>1. OtherCall /\ UNCHANGED loaded /\ loaded /\ StoreWord(Ram)
    BY <1>2 DEF GuestStore, OtherCall
  <2>2. /\ \A p \in Owners : p # Ram => valueBar'[p] = valueBar[p]
        /\ valueBar'[Ram].size = valueBar[Ram].size
    BY <1>0, <2>1, StoreEffect
  <2> QED  BY <2>1, <2>2, OtherCallKeepsImages
<1>3. CASE ResetRam
  <2>1. OtherCall /\ UNCHANGED loaded /\ loaded /\ MemoryCopy(Pristine, Ram)
    BY <1>3 DEF ResetRam, OtherCall
  <2>2. valueBar[Pristine].size = valueBar[Ram].size
    BY <2>1 DEF OtherCall, IImages, OldImages, Paired
  <2>3. UNCHANGED valueBar \/ Becomes(Ram, valueBar[Pristine])
    BY <1>0, <2>1, CopyEffect
  <2>4. /\ \A p \in Owners : p # Ram => valueBar'[p] = valueBar[p]
        /\ valueBar'[Ram].size = valueBar[Ram].size
    BY <2>2, <2>3 DEF Becomes
  <2> QED  BY <2>1, <2>4, OtherCallKeepsImages
<1> QED  BY <1>1, <1>2, <1>3, LoadKeepsImages, ReplaceKeepsImages DEF ImagesNext

LEMMA NextImagesInv == IImages /\ [ImagesNext]_imageVars => IImages'
<1>1. CASE ImagesNext
  BY <1>1, StepKeepsImages
<1>2. CASE UNCHANGED imageVars /\ IImages
  <2>1. IInv' /\ UNCHANGED <<loaded, load, before>> /\ UNCHANGED valueBar
    BY <1>2, ImagesIInv DEF imageVars, valueBar, Contents
  <2> QED
    BY <1>2, <2>1 DEF IImages, LoadTypes, OldImages, NextImages, OldMachineKept, Paired, Loading,
       Copied, Empty, At
<1> QED  BY <1>1, <1>2

LEMMA ImagesAreSound == IImages => HeapSound /\ LoadIsAllOrNothing
<1> SUFFICES ASSUME IImages PROVE HeapSound /\ LoadIsAllOrNothing
  OBVIOUS
<1> USE DEF At
<1>1. HeapSound /\ OldMachineKept
  BY DEF IImages, IInv, HeapSound
<1>2. NewMachineComplete
  BY DEF IImages, NextImages, NewMachineComplete, Loading, Copied, Decided
<1>3. ASSUME loaded, Paired PROVE CopyAccepts(Pristine, Ram)
  BY <1>3, EmptyOwner, Images DEF IImages, Paired, CopyAccepts
<1>4. ImagesPaired
  BY <1>3 DEF IImages, OldImages, NextImages, ImagesPaired, Paired, Loading, Decided, Undecided
<1> QED  BY <1>1, <1>2, <1>4 DEF LoadIsAllOrNothing

\* machine_load replaces both images of a machine by two copies of the program or leaves
\* both alone, whichever of its two clones fails, and no block is lost or shared on the way.
THEOREM MachineLoadIsAllOrNothing == ImagesSpec => [](HeapSound /\ LoadIsAllOrNothing)
<1>1. ImagesInit => IImages
  BY InitImages
<1>2. IImages /\ [ImagesNext]_imageVars => IImages'
  BY NextImagesInv
<1>3. IImages => HeapSound /\ LoadIsAllOrNothing
  BY ImagesAreSound
<1> QED  BY <1>1, <1>2, <1>3, PTL DEF ImagesSpec
=============================================================================
