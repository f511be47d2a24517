----------------------------- MODULE GuestProofs -----------------------------
(***************************************************************************)
(* Proofs about guest programs.  Of their runtime: for every RAM and every *)
(* call, however its regions overlap, the loops write what is promised.  Of*)
(* the tool that builds them: through any number of commands, whichever    *)
(* fail or are killed, the artifacts can be told apart.  Of the words that *)
(* they are made of, all those of 32 bits: the decoder inverts the encoder,*)
(* and the text of the disassembler reads back as the word.  Of the        *)
(* operations that they compute with, at every width: the bit operations   *)
(* of the ALU are arithmetic on the integers that words stand for.         *)
(***************************************************************************)
EXTENDS GuestMemory, GuestBuild, Disassembly, Operands, FiniteSetTheorems,
        WellFoundedInduction, TLAPS

CallOK(c) ==
  /\ c.f \in {"memcpy", "memmove", "memcmp", "memset", "_start"}
  /\ c.out \in Nat /\ c.in \in Nat /\ c.count \in Nat /\ c.value \in Int
  /\ c.out + c.count <= RamSize /\ c.in + c.count <= RamSize
  /\ c.f = "memcpy" => Apart(c.out, c.in, c.count)
  /\ c.f = "_start" => c.count % WordSize = 0 /\ c.value = 0

\* The part of the destination that the loop has been through.
Written(a) ==
  IF Upwards(call) THEN call.out <= a /\ a < call.out + i
  ELSE call.out + i <= a /\ a < call.out + call.count

TypeInv ==
  /\ ram \in [Addresses -> Bytes] /\ before \in [Addresses -> Bytes]
  /\ CallOK(call)
  /\ i \in Nat /\ i <= call.count
  /\ call.f = "_start" => i % WordSize = 0
  /\ result \in {"running", "done", "less", "greater", "equal"}

Progress == \A a \in Addresses : ram[a] = IF Written(a) THEN Promised(a) ELSE before[a]

\* Only memcmp returns early.
Completed ==
  result # "running" =>
    call.f = "memcmp" \/ (IF Upwards(call) THEN i = call.count ELSE i = 0)

MemoryInv == TypeInv /\ Progress /\ Completed
-----------------------------------------------------------------------------
\* Between two multiples of the word size lies at least a word: the loop of start.S
\* cannot step over the end of the BSS.
LEMMA WordsApart ==
  ASSUME NEW w \in Nat \ {0}, NEW a \in Nat, NEW b \in Nat, a % w = 0, b % w = 0, a < b
  PROVE  a + w <= b /\ (a + w) % w = 0
<1> DEFINE k == a \div w
           m == b \div w
<1>1. k \in Nat /\ m \in Nat /\ a = w * k /\ b = w * m
  OBVIOUS
<1> HIDE DEF k, m
<1>2. k < m
  <2>1. SUFFICES ASSUME m <= k PROVE FALSE
    BY <1>1
  <2>2. w * m <= w * k
    BY <1>1, <2>1
  <2> QED
    BY <1>1, <2>2
<1>3. w * (k + 1) <= w * m
  BY <1>1, <1>2
<1>4. w * (k + 1) = a + w
  BY <1>1
<1> QED
  BY <1>1, <1>3, <1>4

LEMMA CallsAreOK ==
  ASSUME NEW c, c \in Calls \/ \E b \in Bss : c = Call("_start", b.out, b.out, b.count, 0)
  PROVE  CallOK(c)
<1> USE GuestMemoryAssumption
<1>1. ASSUME NEW m \in Moves
      PROVE /\ m.out \in Nat /\ m.in \in Nat /\ m.count \in Nat /\ m.f = "memmove" /\ m.value = 0
            /\ m.out + m.count <= RamSize /\ m.in + m.count <= RamSize
  BY DEF Moves, Call, Fits
<1>2. CASE c \in Moves
  BY <1>1, <1>2 DEF CallOK
<1>3. CASE \E m \in Moves :
        Apart(m.out, m.in, m.count) /\ c = Call("memcpy", m.out, m.in, m.count, 0)
  BY <1>1, <1>3 DEF CallOK, Call
<1>4. CASE \E m \in Moves : c = Call("memcmp", m.out, m.in, m.count, 0)
  BY <1>1, <1>4 DEF CallOK, Call
<1>5. CASE \E m \in Moves, value \in Values : c = Call("memset", m.out, m.out, m.count, value)
  <2>1. PICK m \in Moves, value \in Values : c = Call("memset", m.out, m.out, m.count, value)
    BY <1>5
  <2>2. /\ c.f = "memset" /\ c.out = m.out /\ c.in = m.out /\ c.count = m.count
        /\ c.value = value
    BY <2>1 DEF Call
  <2> QED
    BY <1>1, <2>2 DEF CallOK
<1>6. CASE \E b \in Bss : c = Call("_start", b.out, b.out, b.count, 0)
  BY <1>1, <1>6 DEF CallOK, Call, Bss
<1> QED
  BY <1>2, <1>3, <1>4, <1>5, <1>6 DEF Calls

LEMMA InitInv == CallInit => MemoryInv
<1> SUFFICES ASSUME CallInit PROVE MemoryInv
  OBVIOUS
<1> USE GuestMemoryAssumption
<1>1. PICK c : /\ c \in Calls \/ \E b \in Bss : c = Call("_start", b.out, b.out, b.count, 0)
               /\ Enter(c)
  BY DEF CallInit
<1>2. CallOK(call)
  BY <1>1, CallsAreOK DEF Enter
<1>3. TypeInv
  <2>1. i \in Nat /\ i <= call.count
    BY <1>1, <1>2 DEF Enter, CallOK
  <2>2. call.f = "_start" => i % WordSize = 0
    BY <1>1, <1>2 DEF Enter, Upwards
  <2> QED
    BY <1>1, <1>2, <2>1, <2>2 DEF TypeInv, CallInit, Enter
<1>4. Progress
  BY <1>1, <1>2 DEF Progress, Written, CallInit, Enter, CallOK, Addresses
<1> QED
  BY <1>1, <1>3, <1>4 DEF MemoryInv, Completed, Enter
-----------------------------------------------------------------------------
LEMMA CopyUpInv == MemoryInv /\ CopyUp => MemoryInv'
<1> SUFFICES ASSUME MemoryInv, CopyUp PROVE MemoryInv'
  OBVIOUS
<1> USE GuestMemoryAssumption
<1> DEFINE to == call.out + i
           from == call.in + i
<1>1. /\ to \in Addresses /\ from \in Addresses /\ i \in Nat /\ i < call.count
      /\ CallOK(call) /\ ram \in [Addresses -> Bytes] /\ before \in [Addresses -> Bytes]
  <2>1. /\ i \in Nat /\ i < call.count /\ CallOK(call)
        /\ ram \in [Addresses -> Bytes] /\ before \in [Addresses -> Bytes]
    BY DEF MemoryInv, TypeInv, CopyUp
  <2>2. /\ call.out \in Nat /\ call.in \in Nat /\ call.count \in Nat
        /\ call.out + call.count <= RamSize /\ call.in + call.count <= RamSize
    BY <2>1 DEF CallOK
  <2>3. to \in Addresses /\ from \in Addresses
    BY <2>1, <2>2 DEF Addresses
  <2> QED
    BY <2>1, <2>3, Zenon
<1>2. ~Written(from)
  BY <1>1 DEF CopyUp, Copies, Upwards, Written, CallOK, Apart
<1>3. ram[from] = before[from]
  BY <1>1, <1>2 DEF MemoryInv, Progress
<1>4. TypeInv'
  <2>1. ram' \in [Addresses -> Bytes]
    BY <1>1 DEF CopyUp
  <2>2. i' \in Nat /\ i' <= call.count /\ call.f # "_start"
    BY <1>1 DEF CopyUp, Copies, CallOK
  <2> QED
    BY <1>1, <2>1, <2>2 DEF CopyUp, TypeInv, MemoryInv
<1>5. Progress'
  <2> SUFFICES ASSUME NEW a \in Addresses
               PROVE ram'[a] = IF Written(a)' THEN Promised(a)' ELSE before'[a]
    BY DEF Progress
  <2>1. Promised(a)' = Promised(a) /\ before' = before
    BY DEF CopyUp, Promised, InDestination, Copies
  <2>2. CASE a = to
    <3>1. ram'[a] = before[from]
      BY <1>1, <1>3, <2>2 DEF CopyUp
    <3>2. Written(a)'
      BY <1>1, <2>2 DEF CopyUp, Written, Upwards, CallOK
    <3>3. Promised(a) = before[from]
      BY <1>1, <2>2 DEF CopyUp, Promised, InDestination, CallOK
    <3> QED
      BY <2>1, <3>1, <3>2, <3>3
  <2>3. CASE a # to
    <3>1. ram'[a] = ram[a]
      BY <1>1, <2>3 DEF CopyUp
    <3>2. Written(a)' <=> Written(a)
      BY <1>1, <2>3 DEF CopyUp, Written, Upwards, CallOK, Addresses
    <3> QED
      BY <2>1, <3>1, <3>2 DEF MemoryInv, Progress
  <2> QED
    BY <2>2, <2>3
<1> QED
  BY <1>4, <1>5 DEF MemoryInv, Completed, CopyUp

LEMMA CopyDownInv == MemoryInv /\ CopyDown => MemoryInv'
<1> SUFFICES ASSUME MemoryInv, CopyDown PROVE MemoryInv'
  OBVIOUS
<1> USE GuestMemoryAssumption
<1> DEFINE to == call.out + i - 1
           from == call.in + i - 1
<1>1. /\ to \in Addresses /\ from \in Addresses /\ i \in Nat /\ i # 0 /\ i <= call.count
      /\ CallOK(call) /\ ram \in [Addresses -> Bytes] /\ before \in [Addresses -> Bytes]
  BY DEF MemoryInv, TypeInv, CopyDown, CallOK, Addresses
<1>2. ~Written(from)
  BY <1>1 DEF CopyDown, Upwards, Written, CallOK
<1>3. ram[from] = before[from]
  BY <1>1, <1>2 DEF MemoryInv, Progress
<1>4. TypeInv'
  <2>1. ram' \in [Addresses -> Bytes]
    BY <1>1 DEF CopyDown
  <2>2. i' \in Nat /\ i' <= call.count /\ call.f # "_start"
    BY <1>1 DEF CopyDown, Copies, CallOK
  <2> QED
    BY <1>1, <2>1, <2>2 DEF CopyDown, TypeInv, MemoryInv
<1>5. Progress'
  <2> SUFFICES ASSUME NEW a \in Addresses
               PROVE ram'[a] = IF Written(a)' THEN Promised(a)' ELSE before'[a]
    BY DEF Progress
  <2>1. Promised(a)' = Promised(a) /\ before' = before
    BY DEF CopyDown, Promised, InDestination, Copies
  <2>2. CASE a = to
    <3>1. ram'[a] = before[from]
      BY <1>1, <1>3, <2>2 DEF CopyDown
    <3>2. Written(a)'
      BY <1>1, <2>2 DEF CopyDown, Written, Upwards, CallOK
    <3>3. Promised(a) = before[from]
      BY <1>1, <2>2 DEF CopyDown, Promised, InDestination, CallOK
    <3> QED
      BY <2>1, <3>1, <3>2, <3>3
  <2>3. CASE a # to
    <3>1. ram'[a] = ram[a]
      BY <1>1, <2>3 DEF CopyDown
    <3>2. Written(a)' <=> Written(a)
      BY <1>1, <2>3 DEF CopyDown, Written, Upwards, CallOK, Addresses
    <3> QED
      BY <2>1, <3>1, <3>2 DEF MemoryInv, Progress
  <2> QED
    BY <2>2, <2>3
<1> QED
  BY <1>4, <1>5 DEF MemoryInv, Completed, CopyDown

LEMMA SetByteInv == MemoryInv /\ SetByte => MemoryInv'
<1> SUFFICES ASSUME MemoryInv, SetByte PROVE MemoryInv'
  OBVIOUS
<1> USE GuestMemoryAssumption
<1> DEFINE to == call.out + i
           byte == call.value % ByteModulus
<1>1. /\ to \in Addresses /\ i \in Nat /\ i < call.count /\ byte \in Bytes
      /\ CallOK(call) /\ ram \in [Addresses -> Bytes] /\ before \in [Addresses -> Bytes]
  <2>1. /\ i \in Nat /\ i < call.count /\ CallOK(call)
        /\ ram \in [Addresses -> Bytes] /\ before \in [Addresses -> Bytes]
    BY DEF MemoryInv, TypeInv, SetByte
  <2>2. byte \in Bytes
    BY <2>1 DEF CallOK, Bytes
  <2>3. to \in Addresses
    BY <2>1 DEF CallOK, Addresses
  <2> QED
    BY <2>1, <2>2, <2>3
<1> HIDE DEF byte
<1>2. ram' = [ram EXCEPT ![to] = byte]
  BY DEF SetByte, byte
<1>3. TypeInv'
  <2>1. ram' \in [Addresses -> Bytes]
    BY <1>1, <1>2
  <2>2. i' \in Nat /\ i' <= call.count /\ call.f # "_start"
    BY <1>1 DEF SetByte, CallOK
  <2> QED
    BY <1>1, <2>1, <2>2 DEF SetByte, TypeInv, MemoryInv
<1>4. Progress'
  <2> SUFFICES ASSUME NEW a \in Addresses
               PROVE ram'[a] = IF Written(a)' THEN Promised(a)' ELSE before'[a]
    BY DEF Progress
  <2>1. Promised(a)' = Promised(a) /\ before' = before
    BY DEF SetByte, Promised, InDestination, Copies
  <2>2. CASE a = to
    <3>1. Written(a)'
      BY <1>1, <2>2 DEF SetByte, Written, Upwards, CallOK
    <3>2. Promised(a) = byte
      <4>1. InDestination(a)
        BY <1>1, <2>2 DEF InDestination, CallOK
      <4>2. ~Copies /\ call.f # "memcmp"
        BY DEF SetByte, Copies
      <4> QED
        BY <4>1, <4>2 DEF Promised, byte
    <3>3. ram'[a] = byte
      BY <1>1, <1>2, <2>2, Zenon
    <3> QED
      BY <2>1, <3>1, <3>2, <3>3, Zenon
  <2>3. CASE a # to
    <3>1. Written(a)' <=> Written(a)
      BY <1>1, <2>3 DEF SetByte, Written, Upwards, CallOK, Addresses
    <3> QED
      BY <1>1, <1>2, <2>1, <2>3, <3>1 DEF MemoryInv, Progress
  <2> QED
    BY <2>2, <2>3
<1> QED
  BY <1>3, <1>4 DEF MemoryInv, Completed, SetByte

LEMMA CompareByteInv == MemoryInv /\ CompareByte => MemoryInv'
<1> SUFFICES ASSUME MemoryInv, CompareByte PROVE MemoryInv'
  OBVIOUS
<1>1. TypeInv'
  <2>1. i' \in Nat /\ i' <= call.count /\ call.f # "_start"
    BY DEF MemoryInv, TypeInv, CompareByte, CallOK
  <2>2. result' \in {"running", "less", "greater"}
    BY DEF CompareByte
  <2> QED
    BY <2>1, <2>2 DEF CompareByte, TypeInv, MemoryInv
<1>2. Progress'
  <2> SUFFICES ASSUME NEW a \in Addresses
               PROVE ram'[a] = IF Written(a)' THEN Promised(a)' ELSE before'[a]
    BY DEF Progress
  <2>1. Promised(a)' = before[a] /\ Promised(a) = before[a]
    BY DEF CompareByte, Promised, InDestination, Copies
  <2> QED
    BY <2>1 DEF MemoryInv, Progress, CompareByte
<1> QED
  BY <1>1, <1>2 DEF MemoryInv, Completed, CompareByte

LEMMA ClearWordInv == MemoryInv /\ ClearWord => MemoryInv'
<1> SUFFICES ASSUME MemoryInv, ClearWord PROVE MemoryInv'
  OBVIOUS
<1> USE GuestMemoryAssumption
<1>1. /\ i \in Nat /\ i < call.count /\ i % WordSize = 0 /\ call.count % WordSize = 0
      /\ call.value = 0 /\ call.f = "_start" /\ result = "running"
      /\ CallOK(call) /\ ram \in [Addresses -> Bytes] /\ before \in [Addresses -> Bytes]
  BY DEF MemoryInv, TypeInv, ClearWord, CallOK
<1>2. i + WordSize <= call.count /\ (i + WordSize) % WordSize = 0
  BY <1>1, WordsApart DEF CallOK
<1>3. TypeInv'
  <2>1. 0 \in Bytes
    BY DEF Bytes
  <2>2. ram' \in [Addresses -> Bytes]
    BY <1>1, <2>1 DEF ClearWord
  <2> QED
    BY <1>1, <1>2, <2>2 DEF ClearWord, TypeInv, MemoryInv
<1>4. Progress'
  <2> SUFFICES ASSUME NEW a \in Addresses
               PROVE ram'[a] = IF Written(a)' THEN Promised(a)' ELSE before'[a]
    BY DEF Progress
  <2>1. Promised(a)' = Promised(a) /\ before' = before
    BY DEF ClearWord, Promised, InDestination, Copies
  <2>2. ram'[a] = IF a \in call.out + i .. call.out + i + WordSize - 1 THEN 0 ELSE ram[a]
    BY DEF ClearWord
  <2>3. Upwards(call) /\ Upwards(call)'
    BY <1>1 DEF ClearWord, Upwards
  <2>4. Written(a) <=> call.out <= a /\ a < call.out + i
    BY <2>3 DEF Written
  <2>5. Written(a)' <=> call.out <= a /\ a < call.out + (i + WordSize)
    BY <2>3 DEF Written, ClearWord
  <2>6. call.out \in Nat /\ call.count \in Nat /\ a \in Int
    BY <1>1 DEF CallOK, Addresses
  <2>7. Written(a)' <=> Written(a) \/ a \in call.out + i .. call.out + i + WordSize - 1
    BY <1>1, <2>4, <2>5, <2>6
  <2>8. Written(a)' => Promised(a) = 0
    <3>1. 0 % ByteModulus = 0
      OBVIOUS
    <3>2. Written(a)' => InDestination(a)
      BY <1>1, <1>2, <2>5, <2>6 DEF InDestination
    <3>3. InDestination(a) => Promised(a) = call.value % ByteModulus
      BY <1>1 DEF Promised, Copies
    <3> QED
      BY <1>1, <3>1, <3>2, <3>3
  <2> QED
    BY <2>1, <2>2, <2>7, <2>8 DEF MemoryInv, Progress
<1> QED
  BY <1>1, <1>3, <1>4 DEF MemoryInv, Completed, ClearWord

LEMMA ReturnInv == MemoryInv /\ Return => MemoryInv'
<1> SUFFICES ASSUME MemoryInv, Return PROVE MemoryInv'
  OBVIOUS
<1>1. TypeInv'
  BY DEF MemoryInv, TypeInv, Return
<1>2. Progress'
  BY DEF MemoryInv, Progress, Return, Written, Promised, InDestination, Copies
<1>3. Completed'
  BY DEF MemoryInv, TypeInv, CallOK, Completed, Return, Upwards
<1> QED
  BY <1>1, <1>2, <1>3 DEF MemoryInv

\* The loops of the runtime keep their invariant: what they have been through holds
\* what is promised, the rest of the RAM what it held before the call.
THEOREM LoopInvariant == CallSpec => []MemoryInv
<1>1. MemoryInv /\ [CallNext]_callVars => MemoryInv'
  <2>1. MemoryInv /\ UNCHANGED callVars => MemoryInv'
    BY DEF callVars, MemoryInv, TypeInv, Progress, Completed, Written, Promised, InDestination,
           Copies
  <2> QED
    BY <2>1, CopyUpInv, CopyDownInv, SetByteInv, CompareByteInv, ClearWordInv, ReturnInv
       DEF CallNext, CallDone
<1> QED
  BY <1>1, InitInv, PTL DEF CallSpec

\* Every call writes what it promises and nothing else, for every RAM, every contents
\* and every overlap of its regions (memmove, memcpy, memset, the loop of start.S).
THEOREM CallsWriteAsPromised == CallSpec => []WritesAsPromised
<1>1. MemoryInv => WritesAsPromised
  <2> SUFFICES ASSUME MemoryInv, result # "running", NEW a \in Addresses
               PROVE  ram[a] = Promised(a)
    BY DEF WritesAsPromised
  <2>1. CASE call.f = "memcmp"
    <3>1. Promised(a) = before[a]
      BY <2>1 DEF Promised, InDestination, Copies
    <3> QED
      BY <3>1 DEF MemoryInv, Progress
  <2>2. CASE call.f # "memcmp"
    <3>1. Written(a) <=> InDestination(a)
      BY <2>2 DEF MemoryInv, TypeInv, Completed, Written, InDestination, CallOK, Addresses
    <3>2. ~InDestination(a) => Promised(a) = before[a]
      BY DEF Promised
    <3> QED
      BY <3>1, <3>2 DEF MemoryInv, Progress
  <2> QED
    BY <2>1, <2>2
<1> QED
  BY <1>1, LoopInvariant, PTL
-----------------------------------------------------------------------------
\* memcmp has found all the bytes before its counter equal, and the two bytes at the
\* counter unequal if it has returned there.
Compared ==
  /\ call.f = "memcmp" => \A k \in 0 .. i - 1 : before[call.out + k] = before[call.in + k]
  /\ result \in {"less", "greater"} =>
       /\ call.f = "memcmp" /\ i < call.count
       /\ before[call.out + i] # before[call.in + i]
       /\ result = "less" <=> before[call.out + i] < before[call.in + i]
  /\ result = "equal" => call.f = "memcmp" /\ i = call.count

LEMMA ComparedInv == MemoryInv /\ Compared /\ [CallNext]_callVars => Compared'
<1> SUFFICES ASSUME MemoryInv, Compared, [CallNext]_callVars PROVE Compared'
  OBVIOUS
<1>1. CASE CopyUp \/ CopyDown \/ SetByte \/ ClearWord
  <2>1. call' = call /\ before' = before /\ result' = "running" /\ call.f # "memcmp"
    BY <1>1 DEF CopyUp, CopyDown, SetByte, ClearWord, Copies
  <2> QED
    BY <2>1 DEF Compared
<1>2. CASE CompareByte
  <2> DEFINE a == before[call.out + i]
             b == before[call.in + i]
  <2>1. /\ i \in Nat /\ i < call.count /\ call.f = "memcmp" /\ call' = call
        /\ before' = before /\ result = "running" /\ CallOK(call)
    BY <1>2 DEF CompareByte, MemoryInv, TypeInv
  <2>2. ram[call.out + i] = a /\ ram[call.in + i] = b
    <3>1. call.out + i \in Addresses /\ call.in + i \in Addresses
      BY <2>1, GuestMemoryAssumption DEF CallOK, Addresses
    <3>2. \A x \in Addresses : ram[x] = before[x]
      BY <2>1 DEF MemoryInv, Progress, Promised, InDestination, Copies
    <3> QED
      BY <3>1, <3>2
  <2>3. result' = IF a = b THEN "running" ELSE IF a < b THEN "less" ELSE "greater"
    BY <1>2, <2>2 DEF CompareByte, Less
  <2>4. i' = IF a = b THEN i + 1 ELSE i
    BY <1>2, <2>2 DEF CompareByte
  <2>5. \A k \in 0 .. i - 1 : before[call.out + k] = before[call.in + k]
    BY <2>1 DEF Compared
  <2>6. CASE a = b
    <3>1. \A k \in 0 .. (i + 1) - 1 : before[call.out + k] = before[call.in + k]
      BY <2>1, <2>5, <2>6
    <3> QED
      BY <2>1, <2>3, <2>4, <2>6, <3>1 DEF Compared
  <2>7. CASE a # b
    BY <2>1, <2>3, <2>4, <2>5, <2>7 DEF Compared
  <2> QED
    BY <2>6, <2>7
<1>3. CASE Return
  <2>1. /\ call' = call /\ before' = before /\ i' = i
        /\ result' = IF call.f = "memcmp" THEN "equal" ELSE "done"
    BY <1>3 DEF Return
  <2>2. call.f = "memcmp" => i = call.count
    BY <1>3 DEF Return, Upwards, MemoryInv, TypeInv, CallOK
  <2> QED
    BY <2>1, <2>2 DEF Compared
<1>4. CASE UNCHANGED callVars
  BY <1>4 DEF callVars, Compared
<1> QED
  BY <1>1, <1>2, <1>3, <1>4 DEF CallNext, CallDone

\* memcmp orders two regions by the first bytes that differ, taken as unsigned numbers,
\* and calls equal exactly those that have none, whatever their contents and length.
THEOREM MemcmpOrders == CallSpec => []OrdersByFirstDifference
<1>1. CallInit => Compared
  BY InitInv DEF CallInit, Enter, Compared, MemoryInv, TypeInv, CallOK, Upwards
<1>2. MemoryInv /\ Compared => OrdersByFirstDifference
  <2> SUFFICES ASSUME MemoryInv, Compared, result \in {"less", "greater", "equal"}
               PROVE  OrdersByFirstDifference
    BY DEF OrdersByFirstDifference
  <2> DEFINE one(k) == before[call.out + k]
             other(k) == before[call.in + k]
             differ == {k \in 0 .. call.count - 1 : one(k) # other(k)}
  <2>1. i \in Nat /\ call.count \in Nat /\ i <= call.count
    BY DEF MemoryInv, TypeInv, CallOK
  <2>2. call.f = "memcmp" /\ \A k \in 0 .. i - 1 : one(k) = other(k)
    BY DEF Compared
  <2>3. CASE result = "equal"
    <3>1. i = call.count
      BY <2>3 DEF Compared
    <3>2. differ = {}
      BY <2>1, <2>2, <3>1
    <3> QED
      BY <2>3, <3>2 DEF OrdersByFirstDifference
  <2>4. CASE result # "equal"
    <3>1. /\ i < call.count /\ one(i) # other(i)
          /\ result = "less" <=> one(i) < other(i)
      BY <2>4 DEF Compared
    <3>2. i \in differ
      BY <2>1, <3>1
    <3>3. \A k \in differ : (\A j \in differ : k <= j) => k = i
      <4> SUFFICES ASSUME NEW k \in differ, \A j \in differ : k <= j PROVE k = i
        OBVIOUS
      <4>1. k <= i
        BY <3>2
      <4>2. ~(k \in 0 .. i - 1)
        BY <2>2
      <4> QED
        BY <2>1, <4>1, <4>2
    <3> QED
      BY <2>4, <3>1, <3>2, <3>3 DEF OrdersByFirstDifference
  <2> QED
    BY <2>3, <2>4
<1> QED
  BY <1>1, <1>2, ComparedInv, LoopInvariant, PTL DEF CallSpec

\* The runtime keeps its promises for every RAM, contents, overlap and length.
THEOREM CallsKeepPromises == CallSpec => []CallsAsPromised
<1>1. WritesAsPromised /\ OrdersByFirstDifference => CallsAsPromised
  BY DEF CallsAsPromised
<1> QED
  BY <1>1, CallsWriteAsPromised, MemcmpOrders, PTL
-----------------------------------------------------------------------------
(* The artifacts of a build. *)

Ranks == 1 .. 5
Steps == {"idle", "check", "script", "link", "header", "objcopy", "objdump", "move"}
Statuses == {"none", "ok", "failed", "killed"}

BuildTypeOK ==
  /\ command \in [number : Nat, step : Steps, status : Statuses]
  /\ outputs \in [Suffixes -> Nat] /\ previous \in [Suffixes -> Nat]
  /\ moved \in 0 .. 5

\* The artifacts moved so far are new and the others are the previous ones; none of
\* these is newer than the command, nor older than one that is moved after it.
Replaced ==
  \A k \in Ranks :
    outputs[Destinations[k]] = IF k <= moved THEN command.number ELSE previous[Destinations[k]]
PreviousOrdered ==
  \A j, k \in Ranks : j < k => previous[Destinations[j]] >= previous[Destinations[k]]
PreviousOlder == \A k \in Ranks : previous[Destinations[k]] <= command.number

BuildInv ==
  /\ BuildTypeOK /\ Replaced /\ PreviousOrdered /\ PreviousOlder
  /\ command.step \notin {"idle", "move"} => moved = 0
  /\ command.status = "ok" => moved = 5

LEMMA DestinationsAre ==
  /\ Len(Destinations) = 5
  /\ \A k \in Ranks : Destinations[k] \in Suffixes
  /\ \A s \in Suffixes : \E k \in Ranks : s = Destinations[k]
  /\ \A j, k \in Ranks : j # k => Destinations[j] # Destinations[k]
<1>1. Len(Destinations) = 5
  BY DEF Destinations
<1>2. \A j, k \in Ranks : j # k => Destinations[j] # Destinations[k]
  BY DEF Destinations, Ranks
<1> QED
  BY <1>1, <1>2 DEF Suffixes, Ranks

\* The order of the artifacts follows from what the invariant knows of each.
LEMMA ReplacedIsOrdered ==
  ASSUME BuildTypeOK, Replaced, PreviousOrdered, PreviousOlder
  PROVE  /\ \A j, k \in Ranks : j < k => outputs[Destinations[j]] >= outputs[Destinations[k]]
         /\ \A k \in Ranks : outputs[Destinations[k]] <= command.number
<1>1. moved \in Nat /\ command.number \in Nat
      /\ \A k \in Ranks : previous[Destinations[k]] \in Nat
  BY DestinationsAre DEF BuildTypeOK
<1> QED
  BY <1>1 DEF Replaced, PreviousOrdered, PreviousOlder, Ranks

\* A step of a command that moves nothing, and where it may lead.
LEMMA NothingMoved ==
  ASSUME BuildInv, UNCHANGED <<outputs, previous, moved>>,
         command' \in [number : Nat, step : Steps, status : Statuses],
         command'.number = command.number,
         command'.step \notin {"idle", "move"} => moved = 0,
         command'.status = "ok" => moved = 5
  PROVE  BuildInv'
  BY DEF BuildInv, BuildTypeOK, Replaced, PreviousOrdered, PreviousOlder

LEMMA GotoKeeps ==
  ASSUME BuildInv, NEW s \in Steps \ {"idle"}, Goto(s), command.step \notin {"idle", "move"},
         UNCHANGED <<outputs, previous, moved>>
  PROVE  BuildInv'
<1>1. command' \in [number : Nat, step : Steps, status : Statuses]
      /\ command'.number = command.number /\ command'.status = command.status
  BY DEF Goto, BuildInv, BuildTypeOK
<1> QED
  BY <1>1, NothingMoved DEF BuildInv

LEMMA EndKeeps ==
  ASSUME BuildInv, NEW status \in Statuses, End(status), status = "ok" => moved = 5,
         UNCHANGED <<outputs, previous, moved>>
  PROVE  BuildInv'
<1>1. command' \in [number : Nat, step : Steps, status : Statuses]
      /\ command'.number = command.number /\ command'.step = "idle"
      /\ command'.status = status
  BY DEF End, BuildInv, BuildTypeOK, Steps
<1> QED
  BY <1>1, NothingMoved

LEMMA BeginBuildKeeps == BuildInv /\ BeginBuild => BuildInv'
<1> SUFFICES ASSUME BuildInv, BeginBuild PROVE BuildInv'
  OBVIOUS
<1>1. /\ command' = [number |-> command.number + 1, step |-> "check", status |-> "none"]
      /\ outputs' = outputs /\ previous' = outputs /\ moved' = 0
  BY DEF BeginBuild
<1>2. command.number \in Nat /\ outputs \in [Suffixes -> Nat]
  BY DEF BuildInv, BuildTypeOK
<1>3. BuildTypeOK'
  BY <1>1, <1>2 DEF BuildTypeOK, Steps, Statuses
<1>4. Replaced'
  BY <1>1 DEF Replaced, Ranks
<1>5. PreviousOrdered' /\ PreviousOlder'
  <2>1. \A k \in Ranks : outputs[Destinations[k]] \in Nat
    BY <1>2, DestinationsAre
  <2> QED
    BY <1>1, <1>2, <2>1, ReplacedIsOrdered DEF BuildInv, PreviousOrdered, PreviousOlder
<1> QED
  BY <1>1, <1>3, <1>4, <1>5 DEF BuildInv

LEMMA MoveKeeps == BuildInv /\ Move => BuildInv'
<1> SUFFICES ASSUME BuildInv, Move PROVE BuildInv'
  OBVIOUS
<1> DEFINE suffix == Destinations[moved + 1]
<1>1. /\ command.step = "move" /\ moved < 5 /\ moved' = moved + 1
      /\ outputs' = [outputs EXCEPT ![suffix] = command.number]
      /\ UNCHANGED <<command, previous>>
  BY DestinationsAre DEF Move, At
<1>2. /\ moved \in 0 .. 4 /\ moved + 1 \in Ranks /\ command.number \in Nat
      /\ outputs \in [Suffixes -> Nat]
  BY <1>1 DEF BuildInv, BuildTypeOK, Ranks
<1>3. outputs' \in [Suffixes -> Nat]
  BY <1>1, <1>2
<1>4. BuildTypeOK'
  BY <1>1, <1>2, <1>3 DEF BuildInv, BuildTypeOK
<1>5. \A k \in Ranks : outputs'[Destinations[k]] =
        IF k = moved + 1 THEN command.number ELSE outputs[Destinations[k]]
  BY <1>1, <1>2, DestinationsAre
<1>6. Replaced'
  BY <1>1, <1>2, <1>5 DEF BuildInv, Replaced, Ranks
<1>7. PreviousOrdered' /\ PreviousOlder'
  BY <1>1 DEF BuildInv, PreviousOrdered, PreviousOlder
<1>8. command.status # "ok"
  BY <1>1 DEF BuildInv
<1> QED
  BY <1>1, <1>4, <1>6, <1>7, <1>8 DEF BuildInv

LEMMA BuildNextKeeps == BuildInv /\ [BuildNext]_buildVars => BuildInv'
<1> SUFFICES ASSUME BuildInv, [BuildNext]_buildVars PROVE BuildInv'
  OBVIOUS
<1>1. CASE BeginBuild \/ Move
  BY <1>1, BeginBuildKeeps, MoveKeeps
<1>2. CASE MakeDirectory \/ WriteScript \/ Link \/ CheckHeader \/ Objcopy \/ Objdump
  <2>1. /\ command.step \notin {"idle", "move"} /\ UNCHANGED <<outputs, previous, moved>>
        /\ \E s \in Steps \ {"idle"} : Goto(s)
    BY <1>2 DEF MakeDirectory, WriteScript, Link, CheckHeader, Objcopy, Objdump, Produce, At,
       Steps
  <2> QED
    BY <2>1, GotoKeeps
<1>3. CASE RefuseBuild \/ FailBuild \/ Finish \/ Killed
  <2>1. /\ UNCHANGED <<outputs, previous, moved>>
        /\ \E status \in Statuses : End(status) /\ (status = "ok" => moved = 5)
    BY <1>3, DestinationsAre DEF RefuseBuild, FailBuild, Finish, Killed, Statuses
  <2> QED
    BY <2>1, EndKeeps
<1>4. CASE BuildDone \/ UNCHANGED buildVars
  BY <1>4, NothingMoved DEF BuildDone, buildVars, BuildInv, BuildTypeOK
<1> QED
  BY <1>1, <1>2, <1>3, <1>4 DEF BuildNext

\* Through any number of commands, whichever of their steps fail or are killed, the five
\* artifacts are the previous ones up to the first move, all new after a success, and in
\* between the older ones come last (build, in tools/build_guest.py).
THEOREM BuildAccountsForArtifacts == BuildSpec => []ArtifactsAccounted
<1>1. BuildInit => BuildInv
  <2> SUFFICES ASSUME BuildInit PROVE BuildInv
    OBVIOUS
  <2>1. /\ command = [number |-> 0, step |-> "idle", status |-> "none"] /\ moved = 0
        /\ outputs = [s \in Suffixes |-> 0] /\ previous = outputs
    BY DEF BuildInit
  <2>2. \A k \in Ranks : outputs[Destinations[k]] = 0
    BY <2>1, DestinationsAre
  <2> QED
    BY <2>1, <2>2 DEF BuildInv, BuildTypeOK, Replaced, PreviousOrdered, PreviousOlder, Steps,
       Statuses, Ranks
<1>2. BuildInv /\ [BuildNext]_buildVars => BuildInv'
  BY BuildNextKeeps
<1>3. ASSUME BuildInv PROVE ArtifactsAccounted
  <2>1. SuccessReplacesAll
    BY <1>3, DestinationsAre DEF BuildInv, Replaced, SuccessReplacesAll, Ranks
  <2>2. CompilationKeepsOutputs
    <3> SUFFICES ASSUME moved = 0 PROVE outputs = previous
      BY DEF CompilationKeepsOutputs
    <3>1. \A k \in Ranks : outputs[Destinations[k]] = previous[Destinations[k]]
      BY <1>3 DEF BuildInv, Replaced, Ranks
    <3>2. \A s \in Suffixes : outputs[s] = previous[s]
      BY <3>1, DestinationsAre
    <3> QED
      BY <1>3, <3>2 DEF BuildInv, BuildTypeOK
  <2>3. NewestFirst
    BY <1>3, ReplacedIsOrdered, DestinationsAre DEF BuildInv, NewestFirst, Ranks
  <2> QED
    BY <2>1, <2>2, <2>3 DEF ArtifactsAccounted
<1> QED
  BY <1>1, <1>2, <1>3, PTL DEF BuildSpec

-----------------------------------------------------------------------------

\* n bits of word w from position a on are those of v from position b on.
Piece(w, a, v, b, n) == \A k \in a .. a + n - 1 : k \in w <=> k - a + b \in v

\* How a word of each format is cut.
Cut(w, opcode, rd, third, rs1, rs2, seventh) ==
  /\ Piece(w, 0, opcode, 0, 7) /\ Piece(w, 7, rd, 0, 5) /\ Piece(w, 12, third, 0, 3)
  /\ Piece(w, 15, rs1, 0, 5) /\ Piece(w, 20, rs2, 0, 5) /\ Piece(w, 25, seventh, 0, 7)
CutI(w, opcode, rd, third, rs1, v) ==
  /\ Piece(w, 0, opcode, 0, 7) /\ Piece(w, 7, rd, 0, 5) /\ Piece(w, 12, third, 0, 3)
  /\ Piece(w, 15, rs1, 0, 5) /\ Piece(w, 20, v, 0, 12)
CutS(w, opcode, third, rs1, rs2, v) ==
  /\ Piece(w, 0, opcode, 0, 7) /\ Piece(w, 7, v, 0, 5) /\ Piece(w, 12, third, 0, 3)
  /\ Piece(w, 15, rs1, 0, 5) /\ Piece(w, 20, rs2, 0, 5) /\ Piece(w, 25, v, 5, 7)
CutB(w, opcode, third, rs1, rs2, v) ==
  /\ Piece(w, 0, opcode, 0, 7) /\ Piece(w, 7, v, 11, 1) /\ Piece(w, 8, v, 1, 4)
  /\ Piece(w, 12, third, 0, 3) /\ Piece(w, 15, rs1, 0, 5) /\ Piece(w, 20, rs2, 0, 5)
  /\ Piece(w, 25, v, 5, 6) /\ Piece(w, 31, v, 12, 1)
CutU(w, opcode, rd, v) ==
  /\ Piece(w, 0, opcode, 0, 7) /\ Piece(w, 7, rd, 0, 5) /\ Piece(w, 12, v, 12, 20)
CutJ(w, opcode, rd, v) ==
  /\ Piece(w, 0, opcode, 0, 7) /\ Piece(w, 7, rd, 0, 5) /\ Piece(w, 12, v, 12, 8)
  /\ Piece(w, 20, v, 11, 1) /\ Piece(w, 21, v, 1, 10) /\ Piece(w, 31, v, 20, 1)

\* Two words with the same pieces are the same.
LEMMA CutOnce ==
  ASSUME NEW w \in WordBits, NEW x \in WordBits, NEW op, NEW rd, NEW t, NEW rs1, NEW rs2, NEW s
  PROVE  /\ Cut(w, op, rd, t, rs1, rs2, s) /\ Cut(x, op, rd, t, rs1, rs2, s) => w = x
         /\ CutI(w, op, rd, t, rs1, s) /\ CutI(x, op, rd, t, rs1, s) => w = x
         /\ CutS(w, op, t, rs1, rs2, s) /\ CutS(x, op, t, rs1, rs2, s) => w = x
         /\ CutB(w, op, t, rs1, rs2, s) /\ CutB(x, op, t, rs1, rs2, s) => w = x
         /\ CutU(w, op, rd, s) /\ CutU(x, op, rd, s) => w = x
         /\ CutJ(w, op, rd, s) /\ CutJ(x, op, rd, s) => w = x
<1>1. SUFFICES \/ Cut(w, op, rd, t, rs1, rs2, s) /\ Cut(x, op, rd, t, rs1, rs2, s)
               \/ CutI(w, op, rd, t, rs1, s) /\ CutI(x, op, rd, t, rs1, s)
               \/ CutS(w, op, t, rs1, rs2, s) /\ CutS(x, op, t, rs1, rs2, s)
               \/ CutB(w, op, t, rs1, rs2, s) /\ CutB(x, op, t, rs1, rs2, s)
               \/ CutU(w, op, rd, s) /\ CutU(x, op, rd, s)
               \/ CutJ(w, op, rd, s) /\ CutJ(x, op, rd, s)
               => \A k \in Positions : k \in w <=> k \in x
  BY DEF WordBits
<1>2. Cut(w, op, rd, t, rs1, rs2, s) /\ Cut(x, op, rd, t, rs1, rs2, s)
        => \A k \in Positions : k \in w <=> k \in x
  BY DEF Cut, Piece, Positions
<1>3. CutI(w, op, rd, t, rs1, s) /\ CutI(x, op, rd, t, rs1, s)
        => \A k \in Positions : k \in w <=> k \in x
  BY DEF CutI, Piece, Positions
<1>4. CutS(w, op, t, rs1, rs2, s) /\ CutS(x, op, t, rs1, rs2, s)
        => \A k \in Positions : k \in w <=> k \in x
  BY DEF CutS, Piece, Positions
<1>5. CutB(w, op, t, rs1, rs2, s) /\ CutB(x, op, t, rs1, rs2, s)
        => \A k \in Positions : k \in w <=> k \in x
  BY DEF CutB, Piece, Positions
<1>6. CutU(w, op, rd, s) /\ CutU(x, op, rd, s) => \A k \in Positions : k \in w <=> k \in x
  BY DEF CutU, Piece, Positions
<1>7. CutJ(w, op, rd, s) /\ CutJ(x, op, rd, s) => \A k \in Positions : k \in w <=> k \in x
  BY DEF CutJ, Piece, Positions
<1> QED  BY <1>2, <1>3, <1>4, <1>5, <1>6, <1>7

\* The registers and funct7 are pieces of the word.
LEMMA Slice ==
  ASSUME NEW w \in WordBits, NEW a \in Nat, NEW n \in Nat, a + n <= 32,
         NEW r \in SUBSET (0 .. n - 1)
  PROVE  ShiftedRight(w, a) \cap 0 .. n - 1 = r <=> Piece(w, a, r, 0, n)
<1>1. \A j : j \in ShiftedRight(w, a) \cap 0 .. n - 1 <=> j \in 0 .. n - 1 /\ j + a \in w
  BY DEF ShiftedRight, Positions
<1>2. ShiftedRight(w, a) \cap 0 .. n - 1 = r <=> \A j \in 0 .. n - 1 : j + a \in w <=> j \in r
  BY <1>1
<1>3. ASSUME \A j \in 0 .. n - 1 : j + a \in w <=> j \in r PROVE Piece(w, a, r, 0, n)
  <2> SUFFICES ASSUME NEW k \in a .. a + n - 1 PROVE k \in w <=> k - a + 0 \in r
    BY DEF Piece
  <2>1. k - a \in 0 .. n - 1 /\ (k - a) + a = k /\ k - a + 0 = k - a
    OBVIOUS
  <2> QED  BY <1>3, <2>1
<1>4. ASSUME Piece(w, a, r, 0, n), NEW j \in 0 .. n - 1 PROVE j + a \in w <=> j \in r
  <2>1. j + a \in a .. a + n - 1 /\ (j + a) - a + 0 = j
    OBVIOUS
  <2> QED  BY <1>4, <2>1 DEF Piece
<1> QED  BY <1>2, <1>3, <1>4

LEMMA Fields ==
  ASSUME NEW w \in WordBits, NEW r \in Register, NEW s \in SUBSET (0 .. 6)
  PROVE  /\ Rd(w) = r <=> Piece(w, 7, r, 0, 5)
         /\ Rs1(w) = r <=> Piece(w, 15, r, 0, 5)
         /\ Rs2(w) = r <=> Piece(w, 20, r, 0, 5)
         /\ Funct7(w) = s <=> Piece(w, 25, s, 0, 7)
         /\ Opcode(w) = s <=> Piece(w, 0, s, 0, 7)
<1>1. r \in SUBSET (0 .. 5 - 1) /\ s \in SUBSET (0 .. 7 - 1) /\ 5 - 1 = 4 /\ 7 - 1 = 6
  BY DEF Register
<1>2. ShiftedRight(w, 7) \cap 0 .. 5 - 1 = r <=> Piece(w, 7, r, 0, 5)
  BY <1>1, Slice
<1>3. ShiftedRight(w, 15) \cap 0 .. 5 - 1 = r <=> Piece(w, 15, r, 0, 5)
  BY <1>1, Slice
<1>4. ShiftedRight(w, 20) \cap 0 .. 5 - 1 = r <=> Piece(w, 20, r, 0, 5)
  BY <1>1, Slice
<1>5. ShiftedRight(w, 25) \cap 0 .. 7 - 1 = s <=> Piece(w, 25, s, 0, 7)
  BY <1>1, Slice
<1>6. ShiftedRight(w, 0) = w
  <2>1. \A k \in Positions : k + 0 = k  BY DEF Positions
  <2> QED  BY <2>1 DEF ShiftedRight, WordBits
<1>7. ShiftedRight(w, 0) \cap 0 .. 7 - 1 = s <=> Piece(w, 0, s, 0, 7)
  BY <1>1, Slice
<1> QED
  BY <1>1, <1>2, <1>3, <1>4, <1>5, <1>6, <1>7 DEF Rd, Rs1, Rs2, Funct7, Opcode

LEMMA FieldsTyped ==
  ASSUME NEW w \in WordBits
  PROVE  /\ Rd(w) \in Register /\ Rs1(w) \in Register /\ Rs2(w) \in Register
         /\ Funct7(w) \in SUBSET (0 .. 6) /\ Opcode(w) \in SUBSET (0 .. 6)
         /\ Funct3(w) \in 0 .. 7
<1>1. Rd(w) \in Register /\ Rs1(w) \in Register /\ Rs2(w) \in Register
  BY DEF Rd, Rs1, Rs2, Register
<1>2. Funct7(w) \in SUBSET (0 .. 6) /\ Opcode(w) \in SUBSET (0 .. 6)
  BY DEF Funct7, Opcode
<1>3. Funct3(w) \in 0 .. 7  BY DEF Funct3
<1> QED  BY <1>1, <1>2, <1>3

\* So is funct3, which is a number.
LEMMA ThreeBitsAre ==
  /\ \A n \in 0 .. 7 : ThreeBits[n + 1] \in SUBSET (0 .. 2)
  /\ \A n \in 0 .. 7 : /\ 0 \in ThreeBits[n + 1] <=> n \in {1, 3, 5, 7}
                       /\ 1 \in ThreeBits[n + 1] <=> n \in {2, 3, 6, 7}
                       /\ 2 \in ThreeBits[n + 1] <=> n \in {4, 5, 6, 7}
<1> SUFFICES ASSUME NEW n \in 0 .. 7
             PROVE  /\ ThreeBits[n + 1] \in SUBSET (0 .. 2)
                    /\ 0 \in ThreeBits[n + 1] <=> n \in {1, 3, 5, 7}
                    /\ 1 \in ThreeBits[n + 1] <=> n \in {2, 3, 6, 7}
                    /\ 2 \in ThreeBits[n + 1] <=> n \in {4, 5, 6, 7}
  OBVIOUS
<1>0. CASE n = 0  BY <1>0 DEF ThreeBits
<1>1. CASE n = 1  BY <1>1 DEF ThreeBits
<1>2. CASE n = 2  BY <1>2 DEF ThreeBits
<1>3. CASE n = 3  BY <1>3 DEF ThreeBits
<1>4. CASE n = 4  BY <1>4 DEF ThreeBits
<1>5. CASE n = 5  BY <1>5 DEF ThreeBits
<1>6. CASE n = 6  BY <1>6 DEF ThreeBits
<1>7. CASE n = 7  BY <1>7 DEF ThreeBits
<1> QED  BY <1>0, <1>1, <1>2, <1>3, <1>4, <1>5, <1>6, <1>7

LEMMA Funct3Field ==
  ASSUME NEW w \in WordBits, NEW n \in 0 .. 7
  PROVE  Funct3(w) = n <=> Piece(w, 12, ThreeBits[n + 1], 0, 3)
<1>1. Piece(w, 12, ThreeBits[n + 1], 0, 3) <=>
        /\ 12 \in w <=> 0 \in ThreeBits[n + 1]
        /\ 13 \in w <=> 1 \in ThreeBits[n + 1]
        /\ 14 \in w <=> 2 \in ThreeBits[n + 1]
  BY DEF Piece
<1>2. Piece(w, 12, ThreeBits[n + 1], 0, 3) <=>
        /\ 12 \in w <=> n \in {1, 3, 5, 7}
        /\ 13 \in w <=> n \in {2, 3, 6, 7}
        /\ 14 \in w <=> n \in {4, 5, 6, 7}
  BY <1>1, ThreeBitsAre
<1> QED  BY <1>2 DEF Funct3

\* The codes that an encoder is given, with the bits of funct3.
Coded(c) == /\ c.opcode \in SUBSET (0 .. 6) /\ c.funct7 \in SUBSET (0 .. 6)
            /\ c.funct3 \in 0 .. 7
Third(c) == ThreeBits[c.funct3 + 1]

\* Each encoder puts the pieces of its format together.
LEMMA EncodedR ==
  ASSUME NEW c, Coded(c), NEW rd \in Register, NEW rs1 \in Register, NEW rs2 \in Register
  PROVE  /\ EncodeR(c, rd, rs1, rs2) \in WordBits
         /\ Cut(EncodeR(c, rd, rs1, rs2), c.opcode, rd, Third(c), rs1, rs2, c.funct7)
<1> DEFINE w == EncodeR(c, rd, rs1, rs2)
<1>1. /\ \A k \in rd : k \in 0 .. 4
      /\ \A k \in rs1 : k \in 0 .. 4
      /\ \A k \in rs2 : k \in 0 .. 4
      /\ \A k \in Third(c) : k \in 0 .. 2
      /\ \A k \in c.opcode : k \in 0 .. 6
      /\ \A k \in c.funct7 : k \in 0 .. 6
  BY ThreeBitsAre DEF Register, Coded, Third
<1>2. \A k : k \in w <=> \/ k \in Positions /\ k - 25 \in c.funct7
                         \/ k \in Positions /\ k - 20 \in rs2
                         \/ k \in Positions /\ k - 15 \in rs1
                         \/ k \in Positions /\ k - 12 \in Third(c)
                         \/ k \in Positions /\ k - 7 \in rd
                         \/ k \in c.opcode
  BY DEF EncodeR, ShiftedLeft, Third
<1> HIDE DEF w
<1>3. w \in WordBits
  BY <1>1, <1>2 DEF WordBits, Positions
<1>4. Piece(w, 0, c.opcode, 0, 7)  BY <1>1, <1>2 DEF Piece, Positions
<1>5. Piece(w, 7, rd, 0, 5)  BY <1>1, <1>2 DEF Piece, Positions
<1>6. Piece(w, 12, Third(c), 0, 3)  BY <1>1, <1>2 DEF Piece, Positions
<1>7. Piece(w, 15, rs1, 0, 5)  BY <1>1, <1>2 DEF Piece, Positions
<1>8. Piece(w, 20, rs2, 0, 5)  BY <1>1, <1>2 DEF Piece, Positions
<1>9. Piece(w, 25, c.funct7, 0, 7)  BY <1>1, <1>2 DEF Piece, Positions
<1> QED  BY <1>3, <1>4, <1>5, <1>6, <1>7, <1>8, <1>9 DEF Cut, w

LEMMA EncodedI ==
  ASSUME NEW c, Coded(c), NEW rd \in Register, NEW rs1 \in Register, NEW v \in WordBits
  PROVE  /\ EncodeI(c, rd, rs1, v) \in WordBits
         /\ CutI(EncodeI(c, rd, rs1, v), c.opcode, rd, Third(c), rs1, v)
<1> DEFINE w == EncodeI(c, rd, rs1, v)
<1>1. /\ \A k \in rd : k \in 0 .. 4
      /\ \A k \in rs1 : k \in 0 .. 4
      /\ \A k \in Third(c) : k \in 0 .. 2
      /\ \A k \in c.opcode : k \in 0 .. 6
  BY ThreeBitsAre DEF Register, Coded, Third
<1>2. \A k : k \in w <=> \/ k \in Positions /\ k - 20 \in v /\ k - 20 \in 0 .. 11
                         \/ k \in Positions /\ k - 15 \in rs1
                         \/ k \in Positions /\ k - 12 \in Third(c)
                         \/ k \in Positions /\ k - 7 \in rd
                         \/ k \in c.opcode
  BY DEF EncodeI, ShiftedLeft, Third
<1> HIDE DEF w
<1>3. w \in WordBits
  BY <1>1, <1>2 DEF WordBits, Positions
<1>4. Piece(w, 0, c.opcode, 0, 7)  BY <1>1, <1>2 DEF Piece, Positions
<1>5. Piece(w, 7, rd, 0, 5)  BY <1>1, <1>2 DEF Piece, Positions
<1>6. Piece(w, 12, Third(c), 0, 3)  BY <1>1, <1>2 DEF Piece, Positions
<1>7. Piece(w, 15, rs1, 0, 5)  BY <1>1, <1>2 DEF Piece, Positions
<1>8. Piece(w, 20, v, 0, 12)  BY <1>1, <1>2 DEF Piece, Positions
<1> QED  BY <1>3, <1>4, <1>5, <1>6, <1>7, <1>8 DEF CutI, w

LEMMA EncodedS ==
  ASSUME NEW c, Coded(c), NEW rs1 \in Register, NEW rs2 \in Register, NEW v \in WordBits
  PROVE  /\ EncodeS(c, rs1, rs2, v) \in WordBits
         /\ CutS(EncodeS(c, rs1, rs2, v), c.opcode, Third(c), rs1, rs2, v)
<1> DEFINE w == EncodeS(c, rs1, rs2, v)
<1>1. /\ \A k \in rs1 : k \in 0 .. 4
      /\ \A k \in rs2 : k \in 0 .. 4
      /\ \A k \in Third(c) : k \in 0 .. 2
      /\ \A k \in c.opcode : k \in 0 .. 6
  BY ThreeBitsAre DEF Register, Coded, Third
<1>2. \A k : k \in w <=> \/ /\ k \in Positions /\ k - 25 \in Positions
                            /\ k - 25 + 5 \in v /\ k - 25 + 5 \in 0 .. 11
                         \/ k \in Positions /\ k - 20 \in rs2
                         \/ k \in Positions /\ k - 15 \in rs1
                         \/ k \in Positions /\ k - 12 \in Third(c)
                         \/ k \in Positions /\ k - 7 \in v /\ k - 7 \in 0 .. 4
                         \/ k \in c.opcode
  BY DEF EncodeS, ShiftedLeft, ShiftedRight, Third
<1> HIDE DEF w
<1>3. w \in WordBits
  BY <1>1, <1>2 DEF WordBits, Positions
<1>4. Piece(w, 0, c.opcode, 0, 7)  BY <1>1, <1>2 DEF Piece, Positions
<1>5. Piece(w, 7, v, 0, 5)  BY <1>1, <1>2 DEF Piece, Positions
<1>6. Piece(w, 12, Third(c), 0, 3)  BY <1>1, <1>2 DEF Piece, Positions
<1>7. Piece(w, 15, rs1, 0, 5)  BY <1>1, <1>2 DEF Piece, Positions
<1>8. Piece(w, 20, rs2, 0, 5)  BY <1>1, <1>2 DEF Piece, Positions
<1>9. Piece(w, 25, v, 5, 7)  BY <1>1, <1>2 DEF Piece, Positions
<1> QED  BY <1>3, <1>4, <1>5, <1>6, <1>7, <1>8, <1>9 DEF CutS, w

LEMMA EncodedB ==
  ASSUME NEW c, Coded(c), NEW rs1 \in Register, NEW rs2 \in Register, NEW v \in WordBits
  PROVE  /\ EncodeB(c, rs1, rs2, v) \in WordBits
         /\ CutB(EncodeB(c, rs1, rs2, v), c.opcode, Third(c), rs1, rs2, v)
<1> DEFINE w == EncodeB(c, rs1, rs2, v)
<1>1. /\ \A k \in rs1 : k \in 0 .. 4
      /\ \A k \in rs2 : k \in 0 .. 4
      /\ \A k \in Third(c) : k \in 0 .. 2
      /\ \A k \in c.opcode : k \in 0 .. 6
  BY ThreeBitsAre DEF Register, Coded, Third
<1>2. \A k : k \in w <=> \/ /\ k \in Positions /\ k - 31 \in Positions
                            /\ k - 31 + 12 \in v /\ k - 31 + 12 \in 0 .. 12
                         \/ /\ k \in Positions /\ k - 25 \in Positions /\ k - 25 \in 0 .. 5
                            /\ k - 25 + 5 \in v
                         \/ k \in Positions /\ k - 20 \in rs2
                         \/ k \in Positions /\ k - 15 \in rs1
                         \/ k \in Positions /\ k - 12 \in Third(c)
                         \/ /\ k \in Positions /\ k - 8 \in Positions /\ k - 8 \in 0 .. 3
                            /\ k - 8 + 1 \in v
                         \/ k \in Positions /\ k - 7 \in Positions /\ k - 7 = 0 /\ k - 7 + 11 \in v
                         \/ k \in c.opcode
  BY DEF EncodeB, ShiftedLeft, ShiftedRight, Third
<1> HIDE DEF w
<1>3. w \in WordBits
  BY <1>1, <1>2 DEF WordBits, Positions
<1>4. Piece(w, 0, c.opcode, 0, 7)  BY <1>1, <1>2 DEF Piece, Positions
<1>5. Piece(w, 7, v, 11, 1)  BY <1>1, <1>2 DEF Piece, Positions
<1>6. Piece(w, 8, v, 1, 4)  BY <1>1, <1>2 DEF Piece, Positions
<1>7. Piece(w, 12, Third(c), 0, 3)  BY <1>1, <1>2 DEF Piece, Positions
<1>8. Piece(w, 15, rs1, 0, 5)  BY <1>1, <1>2 DEF Piece, Positions
<1>9. Piece(w, 20, rs2, 0, 5)  BY <1>1, <1>2 DEF Piece, Positions
<1>10. Piece(w, 25, v, 5, 6)  BY <1>1, <1>2 DEF Piece, Positions
<1>11. Piece(w, 31, v, 12, 1)  BY <1>1, <1>2 DEF Piece, Positions
<1> QED  BY <1>3, <1>4, <1>5, <1>6, <1>7, <1>8, <1>9, <1>10, <1>11 DEF CutB, w

LEMMA EncodedU ==
  ASSUME NEW c, Coded(c), NEW rd \in Register, NEW v \in SUBSET (12 .. 31)
  PROVE  /\ EncodeU(c, rd, v) \in WordBits
         /\ CutU(EncodeU(c, rd, v), c.opcode, rd, v)
<1> DEFINE w == EncodeU(c, rd, v)
<1>1. /\ \A k \in rd : k \in 0 .. 4
      /\ \A k \in v : k \in 12 .. 31
      /\ \A k \in c.opcode : k \in 0 .. 6
  BY DEF Register, Coded
<1>2. \A k : k \in w <=> k \in v \/ (k \in Positions /\ k - 7 \in rd) \/ k \in c.opcode
  BY DEF EncodeU, ShiftedLeft
<1> HIDE DEF w
<1>3. w \in WordBits
  <2> SUFFICES ASSUME NEW k \in w PROVE k \in Positions
    BY DEF WordBits
  <2>1. k \in v \/ k \in Positions \/ k \in c.opcode  BY <1>2
  <2>2. \A m \in 12 .. 31 : m \in Positions  BY DEF Positions
  <2>3. \A m \in 0 .. 6 : m \in Positions  BY DEF Positions
  <2> QED  BY <1>1, <2>1, <2>2, <2>3
<1>4. Piece(w, 0, c.opcode, 0, 7)  BY <1>1, <1>2 DEF Piece, Positions
<1>5. Piece(w, 7, rd, 0, 5)  BY <1>1, <1>2 DEF Piece, Positions
<1>6. Piece(w, 12, v, 12, 20)  BY <1>1, <1>2 DEF Piece, Positions
<1> QED  BY <1>3, <1>4, <1>5, <1>6 DEF CutU, w

LEMMA EncodedJ ==
  ASSUME NEW c, Coded(c), NEW rd \in Register, NEW v \in WordBits
  PROVE  /\ EncodeJ(c, rd, v) \in WordBits
         /\ CutJ(EncodeJ(c, rd, v), c.opcode, rd, v)
<1> DEFINE w == EncodeJ(c, rd, v)
<1>1. /\ \A k \in rd : k \in 0 .. 4
      /\ \A k \in c.opcode : k \in 0 .. 6
  BY DEF Register, Coded
<1>2. \A k : k \in w <=> \/ /\ k \in Positions /\ k - 31 \in Positions
                            /\ k - 31 + 20 \in v /\ k - 31 + 20 \in 0 .. 20
                         \/ /\ k \in Positions /\ k - 21 \in Positions /\ k - 21 \in 0 .. 9
                            /\ k - 21 + 1 \in v
                         \/ /\ k \in Positions /\ k - 20 \in Positions
                            /\ k - 20 = 0 /\ k - 20 + 11 \in v
                         \/ k \in v /\ k \in 12 .. 19
                         \/ k \in Positions /\ k - 7 \in rd
                         \/ k \in c.opcode
  BY DEF EncodeJ, ShiftedLeft, ShiftedRight
<1> HIDE DEF w
<1>3. w \in WordBits
  BY <1>1, <1>2 DEF WordBits, Positions
<1>4. Piece(w, 0, c.opcode, 0, 7)  BY <1>1, <1>2 DEF Piece, Positions
<1>5. Piece(w, 7, rd, 0, 5)  BY <1>1, <1>2 DEF Piece, Positions
<1>6. Piece(w, 12, v, 12, 8)  BY <1>1, <1>2 DEF Piece, Positions
<1>7. Piece(w, 20, v, 11, 1)  BY <1>1, <1>2 DEF Piece, Positions
<1>8. Piece(w, 21, v, 1, 10)  BY <1>1, <1>2 DEF Piece, Positions
<1>9. Piece(w, 31, v, 20, 1)  BY <1>1, <1>2 DEF Piece, Positions
<1> QED  BY <1>3, <1>4, <1>5, <1>6, <1>7, <1>8, <1>9 DEF CutJ, w

\* Immediates of a format are equal when their pieces in the word are.
LEMMA ImmediatesOnce ==
  ASSUME NEW z \in Nat, NEW n \in Nat, z < n,
         NEW v \in Immediates(z, n), NEW x \in Immediates(z, n),
         \A k \in z .. n - 1 : k \in v <=> k \in x
  PROVE  v = x
<1>1. \A k \in 0 .. z - 1 : k \notin v /\ k \notin x
  BY DEF Immediates
<1>2. \A k \in n .. 31 : (k \in v <=> n - 1 \in v) /\ (k \in x <=> n - 1 \in x)
  BY DEF Immediates
<1>3. n - 1 \in z .. n - 1  OBVIOUS
<1>4. n - 1 \in v <=> n - 1 \in x  BY <1>3
<1>5. ASSUME NEW k \in Positions PROVE k \in v <=> k \in x
  <2>1. k \in 0 .. z - 1 \/ k \in z .. n - 1 \/ k \in n .. 31  BY DEF Positions
  <2> QED  BY <1>1, <1>2, <1>4, <2>1
<1> QED  BY <1>5 DEF Immediates, WordBits

\* A sign-extended value keeps its bits and repeats its sign.
LEMMA SignExtended ==
  ASSUME NEW z \in Nat, NEW n \in Nat, z < n, n <= 32, NEW b \in SUBSET (z .. n - 1)
  PROVE  /\ SignExtend(b, n) \in Immediates(z, n)
         /\ \A k \in z .. n - 1 : k \in SignExtend(b, n) <=> k \in b
<1> DEFINE x == SignExtend(b, n)
<1>1. \A k : k \in x <=> k \in b \/ (n - 1 \in b /\ k \in n .. 31)
  BY DEF SignExtend
<1> HIDE DEF x
<1>2. x \in WordBits
  <2> SUFFICES ASSUME NEW k \in x PROVE k \in Positions
    BY DEF WordBits
  <2>1. k \in z .. n - 1 \/ k \in n .. 31  BY <1>1
  <2> QED  BY <2>1 DEF Positions
<1>3. \A k \in z .. n - 1 : k \in x <=> k \in b  BY <1>1
<1>4. x \cap 0 .. z - 1 = {}  BY <1>1
<1>5. n - 1 \in z .. n - 1  OBVIOUS
<1>6. \A k \in n .. 31 : k \in x <=> n - 1 \in x  BY <1>1, <1>3, <1>5
<1> QED  BY <1>2, <1>3, <1>4, <1>6 DEF Immediates, x

\* The decoder puts the pieces of each format together.
LEMMA DecodedI ==
  ASSUME NEW w \in WordBits
  PROVE  ImmediateI(w) \in Immediates(0, 12) /\ Piece(w, 20, ImmediateI(w), 0, 12)
<1> DEFINE b == ShiftedRight(w, 20)
<1>1. \A j : j \in b <=> j \in Positions /\ j + 20 \in w
  BY DEF ShiftedRight
<1>2. \A k \in w : k \in 0 .. 31  BY DEF WordBits, Positions
<1> HIDE DEF b
<1>3. b \in SUBSET (0 .. 12 - 1)  BY <1>1, <1>2 DEF Positions
<1>4. /\ SignExtend(b, 12) \in Immediates(0, 12)
      /\ \A j \in 0 .. 12 - 1 : j \in SignExtend(b, 12) <=> j \in b
  BY <1>3, SignExtended
<1>5. ASSUME NEW k \in 20 .. 20 + 12 - 1 PROVE k \in w <=> k - 20 + 0 \in SignExtend(b, 12)
  <2>1. k - 20 + 0 \in 0 .. 12 - 1 /\ k - 20 + 0 \in Positions /\ (k - 20 + 0) + 20 = k
    BY DEF Positions
  <2> QED  BY <1>1, <1>4, <2>1
<1> QED  BY <1>4, <1>5 DEF ImmediateI, Piece, b

LEMMA DecodedS ==
  ASSUME NEW w \in WordBits
  PROVE  /\ ImmediateS(w) \in Immediates(0, 12)
         /\ Piece(w, 7, ImmediateS(w), 0, 5) /\ Piece(w, 25, ImmediateS(w), 5, 7)
<1> DEFINE b == (ShiftedRight(w, 20) \cap 5 .. 11) \cup (ShiftedRight(w, 7) \cap 0 .. 4)
           v == SignExtend(b, 12)
<1>1. \A j : j \in b <=> \/ j \in 5 .. 11 /\ j + 20 \in w
                         \/ j \in 0 .. 4 /\ j + 7 \in w
  BY DEF ShiftedRight, Positions
<1> HIDE DEF b
<1>2. b \in SUBSET (0 .. 12 - 1)  BY <1>1
<1>3. v \in Immediates(0, 12) /\ \A j \in 0 .. 12 - 1 : j \in v <=> j \in b
  BY <1>2, SignExtended
<1> HIDE DEF v
<1>4. ASSUME NEW k \in 7 .. 7 + 5 - 1 PROVE k \in w <=> k - 7 + 0 \in v
  <2>1. k - 7 + 0 \in 0 .. 12 - 1 /\ k - 7 + 0 \in 0 .. 4 /\ (k - 7 + 0) + 7 = k
        /\ k - 7 + 0 \notin 5 .. 11
    OBVIOUS
  <2> QED  BY <1>1, <1>3, <2>1
<1>5. ASSUME NEW k \in 25 .. 25 + 7 - 1 PROVE k \in w <=> k - 25 + 5 \in v
  <2>1. k - 25 + 5 \in 0 .. 12 - 1 /\ k - 25 + 5 \in 5 .. 11 /\ (k - 25 + 5) + 20 = k
        /\ k - 25 + 5 \notin 0 .. 4
    OBVIOUS
  <2> QED  BY <1>1, <1>3, <2>1
<1> QED  BY <1>3, <1>4, <1>5 DEF ImmediateS, Piece, b, v

LEMMA DecodedB ==
  ASSUME NEW w \in WordBits
  PROVE  /\ ImmediateB(w) \in Immediates(1, 13)
         /\ Piece(w, 7, ImmediateB(w), 11, 1) /\ Piece(w, 8, ImmediateB(w), 1, 4)
         /\ Piece(w, 25, ImmediateB(w), 5, 6) /\ Piece(w, 31, ImmediateB(w), 12, 1)
<1> DEFINE b == ShiftedLeft(ShiftedRight(w, 31), 12) \cup (ShiftedLeft(w, 4) \cap {11})
                \cup (ShiftedRight(w, 20) \cap 5 .. 10) \cup (ShiftedRight(w, 7) \cap 1 .. 4)
           v == SignExtend(b, 13)
<1>1. \A k \in w : k \in 0 .. 31  BY DEF WordBits, Positions
<1>2. \A j : j \in b <=> \/ j \in Positions /\ j - 12 \in Positions /\ j - 12 + 31 \in w
                         \/ j = 11 /\ j - 4 \in w
                         \/ j \in 5 .. 10 /\ j + 20 \in w
                         \/ j \in 1 .. 4 /\ j + 7 \in w
  BY DEF ShiftedRight, ShiftedLeft, Positions
<1>3. \A j : j \in b <=> \/ j = 12 /\ 31 \in w
                         \/ j = 11 /\ 7 \in w
                         \/ j \in 5 .. 10 /\ j + 20 \in w
                         \/ j \in 1 .. 4 /\ j + 7 \in w
  <2> SUFFICES ASSUME NEW j
               PROVE  /\ j \in Positions /\ j - 12 \in Positions /\ j - 12 + 31 \in w
                           <=> j = 12 /\ 31 \in w
    BY <1>2
  <2> QED  BY <1>1 DEF Positions
<1> HIDE DEF b
<1>4. b \in SUBSET (1 .. 13 - 1)  BY <1>3
<1>5. v \in Immediates(1, 13) /\ \A j \in 1 .. 13 - 1 : j \in v <=> j \in b
  BY <1>4, SignExtended
<1> HIDE DEF v
<1>6. Piece(w, 7, v, 11, 1)
  <2>1. 11 \in v <=> 7 \in w  BY <1>3, <1>5
  <2> QED  BY <2>1 DEF Piece
<1>7. ASSUME NEW k \in 8 .. 8 + 4 - 1 PROVE k \in w <=> k - 8 + 1 \in v
  <2>1. k - 8 + 1 \in 1 .. 13 - 1 /\ k - 8 + 1 \in 1 .. 4 /\ (k - 8 + 1) + 7 = k
        /\ k - 8 + 1 \notin 5 .. 10 /\ k - 8 + 1 # 11 /\ k - 8 + 1 # 12
    OBVIOUS
  <2> QED  BY <1>3, <1>5, <2>1
<1>8. ASSUME NEW k \in 25 .. 25 + 6 - 1 PROVE k \in w <=> k - 25 + 5 \in v
  <2>1. k - 25 + 5 \in 1 .. 13 - 1 /\ k - 25 + 5 \in 5 .. 10 /\ (k - 25 + 5) + 20 = k
        /\ k - 25 + 5 \notin 1 .. 4 /\ k - 25 + 5 # 11 /\ k - 25 + 5 # 12
    OBVIOUS
  <2> QED  BY <1>3, <1>5, <2>1
<1>9. Piece(w, 31, v, 12, 1)
  <2>1. 12 \in v <=> 31 \in w  BY <1>3, <1>5
  <2> QED  BY <2>1 DEF Piece
<1> QED  BY <1>5, <1>6, <1>7, <1>8, <1>9 DEF ImmediateB, Piece, b, v

LEMMA DecodedJ ==
  ASSUME NEW w \in WordBits
  PROVE  /\ ImmediateJ(w) \in Immediates(1, 21)
         /\ Piece(w, 12, ImmediateJ(w), 12, 8) /\ Piece(w, 20, ImmediateJ(w), 11, 1)
         /\ Piece(w, 21, ImmediateJ(w), 1, 10) /\ Piece(w, 31, ImmediateJ(w), 20, 1)
<1> DEFINE b == ShiftedLeft(ShiftedRight(w, 31), 20) \cup (w \cap 12 .. 19)
                \cup (ShiftedRight(w, 9) \cap {11}) \cup (ShiftedRight(w, 20) \cap 1 .. 10)
           v == SignExtend(b, 21)
<1>1. \A k \in w : k \in 0 .. 31  BY DEF WordBits, Positions
<1>2. \A j : j \in b <=> \/ j \in Positions /\ j - 20 \in Positions /\ j - 20 + 31 \in w
                         \/ j \in 12 .. 19 /\ j \in w
                         \/ j = 11 /\ j + 9 \in w
                         \/ j \in 1 .. 10 /\ j + 20 \in w
  BY DEF ShiftedRight, ShiftedLeft, Positions
<1>3. \A j : j \in b <=> \/ j = 20 /\ 31 \in w
                         \/ j \in 12 .. 19 /\ j \in w
                         \/ j = 11 /\ 20 \in w
                         \/ j \in 1 .. 10 /\ j + 20 \in w
  <2> SUFFICES ASSUME NEW j
               PROVE  /\ j \in Positions /\ j - 20 \in Positions /\ j - 20 + 31 \in w
                           <=> j = 20 /\ 31 \in w
    BY <1>2
  <2> QED  BY <1>1 DEF Positions
<1> HIDE DEF b
<1>4. b \in SUBSET (1 .. 21 - 1)  BY <1>3
<1>5. v \in Immediates(1, 21) /\ \A j \in 1 .. 21 - 1 : j \in v <=> j \in b
  BY <1>4, SignExtended
<1> HIDE DEF v
<1>6. ASSUME NEW k \in 12 .. 12 + 8 - 1 PROVE k \in w <=> k - 12 + 12 \in v
  <2>1. k \in 1 .. 21 - 1 /\ k \in 12 .. 19 /\ k - 12 + 12 = k
        /\ k \notin 1 .. 10 /\ k # 11 /\ k # 20
    OBVIOUS
  <2> QED  BY <1>3, <1>5, <2>1
<1>7. Piece(w, 20, v, 11, 1)
  <2>1. 11 \in v <=> 20 \in w  BY <1>3, <1>5
  <2> QED  BY <2>1 DEF Piece
<1>8. ASSUME NEW k \in 21 .. 21 + 10 - 1 PROVE k \in w <=> k - 21 + 1 \in v
  <2>1. k - 21 + 1 \in 1 .. 21 - 1 /\ k - 21 + 1 \in 1 .. 10 /\ (k - 21 + 1) + 20 = k
        /\ k - 21 + 1 \notin 12 .. 19 /\ k - 21 + 1 # 11 /\ k - 21 + 1 # 20
    OBVIOUS
  <2> QED  BY <1>3, <1>5, <2>1
<1>9. Piece(w, 31, v, 20, 1)
  <2>1. 20 \in v <=> 31 \in w  BY <1>3, <1>5
  <2> QED  BY <2>1 DEF Piece
<1> QED  BY <1>5, <1>6, <1>7, <1>8, <1>9 DEF ImmediateJ, Piece, b, v

\* What two words share of their pieces, position by position.
LEMMA PieceAt ==
  ASSUME NEW w, NEW v, NEW x, NEW a \in Nat, NEW b \in Nat, NEW n \in Nat,
         Piece(w, a, v, b, n), Piece(w, a, x, b, n)
  PROVE  \A j \in b .. b + n - 1 : j \in v <=> j \in x
<1> SUFFICES ASSUME NEW j \in b .. b + n - 1 PROVE j \in v <=> j \in x
  OBVIOUS
<1>1. j - b + a \in a .. a + n - 1 /\ (j - b + a) - a + b = j
  OBVIOUS
<1> QED  BY <1>1 DEF Piece

\* The immediate that the decoder finds is the only one of its format.
LEMMA ImmediateFound ==
  ASSUME NEW w \in WordBits, NEW op, NEW rd, NEW t, NEW rs1, NEW rs2
  PROVE  /\ \A v \in Immediates(0, 12) : CutI(w, op, rd, t, rs1, v) => ImmediateI(w) = v
         /\ \A v \in Immediates(0, 12) : CutS(w, op, t, rs1, rs2, v) => ImmediateS(w) = v
         /\ \A v \in Immediates(1, 13) : CutB(w, op, t, rs1, rs2, v) => ImmediateB(w) = v
         /\ \A v \in SUBSET (12 .. 31) : CutU(w, op, rd, v) => ImmediateU(w) = v
         /\ \A v \in Immediates(1, 21) : CutJ(w, op, rd, v) => ImmediateJ(w) = v
<1>1. ASSUME NEW v \in Immediates(0, 12), CutI(w, op, rd, t, rs1, v) PROVE ImmediateI(w) = v
  <2> DEFINE x == ImmediateI(w)
  <2>1. x \in Immediates(0, 12) /\ Piece(w, 20, x, 0, 12)  BY DecodedI
  <2>2. Piece(w, 20, v, 0, 12)  BY <1>1 DEF CutI
  <2> HIDE DEF x
  <2>3. \A j \in 0 .. 0 + 12 - 1 : j \in x <=> j \in v  BY <2>1, <2>2, PieceAt
  <2>4. \A j \in 0 .. 12 - 1 : j \in x <=> j \in v  BY <2>3
  <2>5. x = v  BY <1>1, <2>1, <2>4, ImmediatesOnce
  <2> QED  BY <2>5 DEF x
<1>2. ASSUME NEW v \in Immediates(0, 12), CutS(w, op, t, rs1, rs2, v) PROVE ImmediateS(w) = v
  <2> DEFINE x == ImmediateS(w)
  <2>1. x \in Immediates(0, 12) /\ Piece(w, 7, x, 0, 5) /\ Piece(w, 25, x, 5, 7)  BY DecodedS
  <2>2. Piece(w, 7, v, 0, 5) /\ Piece(w, 25, v, 5, 7)  BY <1>2 DEF CutS
  <2> HIDE DEF x
  <2>3. \A j \in 0 .. 0 + 5 - 1 : j \in x <=> j \in v  BY <2>1, <2>2, PieceAt
  <2>4. \A j \in 5 .. 5 + 7 - 1 : j \in x <=> j \in v  BY <2>1, <2>2, PieceAt
  <2>5. \A j \in 0 .. 12 - 1 : j \in x <=> j \in v  BY <2>3, <2>4
  <2>6. x = v  BY <1>2, <2>1, <2>5, ImmediatesOnce
  <2> QED  BY <2>6 DEF x
<1>3. ASSUME NEW v \in Immediates(1, 13), CutB(w, op, t, rs1, rs2, v) PROVE ImmediateB(w) = v
  <2> DEFINE x == ImmediateB(w)
  <2>1. /\ x \in Immediates(1, 13) /\ Piece(w, 7, x, 11, 1) /\ Piece(w, 8, x, 1, 4)
        /\ Piece(w, 25, x, 5, 6) /\ Piece(w, 31, x, 12, 1)
    BY DecodedB
  <2>2. /\ Piece(w, 7, v, 11, 1) /\ Piece(w, 8, v, 1, 4)
        /\ Piece(w, 25, v, 5, 6) /\ Piece(w, 31, v, 12, 1)
    BY <1>3 DEF CutB
  <2> HIDE DEF x
  <2>3. \A j \in 11 .. 11 + 1 - 1 : j \in x <=> j \in v  BY <2>1, <2>2, PieceAt
  <2>4. \A j \in 1 .. 1 + 4 - 1 : j \in x <=> j \in v  BY <2>1, <2>2, PieceAt
  <2>5. \A j \in 5 .. 5 + 6 - 1 : j \in x <=> j \in v  BY <2>1, <2>2, PieceAt
  <2>6. \A j \in 12 .. 12 + 1 - 1 : j \in x <=> j \in v  BY <2>1, <2>2, PieceAt
  <2>7. \A j \in 1 .. 13 - 1 : j \in x <=> j \in v  BY <2>3, <2>4, <2>5, <2>6
  <2>8. x = v  BY <1>3, <2>1, <2>7, ImmediatesOnce
  <2> QED  BY <2>8 DEF x
<1>4. ASSUME NEW v \in SUBSET (12 .. 31), CutU(w, op, rd, v) PROVE ImmediateU(w) = v
  <2>1. \A k \in 12 .. 31 : k \in w <=> k \in v
    <3>1. Piece(w, 12, v, 12, 20)  BY <1>4 DEF CutU
    <3>2. \A k \in 12 .. 31 : k \in 12 .. 12 + 20 - 1 /\ k - 12 + 12 = k  OBVIOUS
    <3> QED  BY <3>1, <3>2 DEF Piece
  <2> QED  BY <2>1 DEF ImmediateU
<1>5. ASSUME NEW v \in Immediates(1, 21), CutJ(w, op, rd, v) PROVE ImmediateJ(w) = v
  <2> DEFINE x == ImmediateJ(w)
  <2>1. /\ x \in Immediates(1, 21) /\ Piece(w, 12, x, 12, 8) /\ Piece(w, 20, x, 11, 1)
        /\ Piece(w, 21, x, 1, 10) /\ Piece(w, 31, x, 20, 1)
    BY DecodedJ
  <2>2. /\ Piece(w, 12, v, 12, 8) /\ Piece(w, 20, v, 11, 1)
        /\ Piece(w, 21, v, 1, 10) /\ Piece(w, 31, v, 20, 1)
    BY <1>5 DEF CutJ
  <2> HIDE DEF x
  <2>3. \A j \in 12 .. 12 + 8 - 1 : j \in x <=> j \in v  BY <2>1, <2>2, PieceAt
  <2>4. \A j \in 11 .. 11 + 1 - 1 : j \in x <=> j \in v  BY <2>1, <2>2, PieceAt
  <2>5. \A j \in 1 .. 1 + 10 - 1 : j \in x <=> j \in v  BY <2>1, <2>2, PieceAt
  <2>6. \A j \in 20 .. 20 + 1 - 1 : j \in x <=> j \in v  BY <2>1, <2>2, PieceAt
  <2>7. \A j \in 1 .. 21 - 1 : j \in x <=> j \in v  BY <2>3, <2>4, <2>5, <2>6
  <2>8. x = v  BY <1>5, <2>1, <2>7, ImmediatesOnce
  <2> QED  BY <2>8 DEF x
<1> QED  BY <1>1, <1>2, <1>3, <1>4, <1>5

\* An opcode by its bits; no opcode is another.
Bits(op, two, three, four, five, six) ==
  /\ op \in SUBSET (0 .. 6)
  /\ (2 \in op <=> two) /\ (3 \in op <=> three) /\ (4 \in op <=> four)
  /\ (5 \in op <=> five) /\ (6 \in op <=> six)

LEMMA OpcodeBits ==
  /\ Bits(LOAD, FALSE, FALSE, FALSE, FALSE, FALSE)
  /\ Bits(MISC_MEM, TRUE, TRUE, FALSE, FALSE, FALSE)
  /\ Bits(OP_IMM, FALSE, FALSE, TRUE, FALSE, FALSE)
  /\ Bits(AUIPC, TRUE, FALSE, TRUE, FALSE, FALSE)
  /\ Bits(STORE, FALSE, FALSE, FALSE, TRUE, FALSE)
  /\ Bits(OP, FALSE, FALSE, TRUE, TRUE, FALSE)
  /\ Bits(LUI, TRUE, FALSE, TRUE, TRUE, FALSE)
  /\ Bits(BRANCH, FALSE, FALSE, FALSE, TRUE, TRUE)
  /\ Bits(JALR, TRUE, FALSE, FALSE, TRUE, TRUE)
  /\ Bits(JAL, TRUE, TRUE, FALSE, TRUE, TRUE)
  /\ Bits(SYSTEM, FALSE, FALSE, TRUE, TRUE, TRUE)
  BY DEF Bits, LOAD, MISC_MEM, OP_IMM, AUIPC, STORE, OP, LUI, BRANCH, JALR, JAL, SYSTEM

LEMMA OpcodesApart ==
  /\ LOAD \notin {MISC_MEM, OP_IMM, AUIPC, STORE, OP, LUI, BRANCH, JALR, JAL, SYSTEM}
  /\ MISC_MEM \notin {OP_IMM, AUIPC, STORE, OP, LUI, BRANCH, JALR, JAL, SYSTEM}
  /\ OP_IMM \notin {AUIPC, STORE, OP, LUI, BRANCH, JALR, JAL, SYSTEM}
  /\ AUIPC \notin {STORE, OP, LUI, BRANCH, JALR, JAL, SYSTEM}
  /\ STORE \notin {OP, LUI, BRANCH, JALR, JAL, SYSTEM}
  /\ OP \notin {LUI, BRANCH, JALR, JAL, SYSTEM}
  /\ LUI \notin {BRANCH, JALR, JAL, SYSTEM}
  /\ BRANCH \notin {JALR, JAL, SYSTEM}
  /\ JALR \notin {JAL, SYSTEM}
  /\ JAL \notin {SYSTEM}
  BY OpcodeBits DEF Bits

LEMMA FunctBits == BASE # ALTERNATE /\ BASE \in SUBSET (0 .. 6) /\ ALTERNATE \in SUBSET (0 .. 6)
  BY DEF BASE, ALTERNATE

\* The tables of the decoder are those of the encoder, one by one.
LEMMA RegisterKinds ==
  ASSUME NEW w \in WordBits
  PROVE  /\ RegisterKind(w) \in RKinds \cup {"UNKNOWN"}
         /\ \A k \in RKinds : RegisterKind(w) = k <=> Funct3(w) = Codes[k].funct3
                                                       /\ Funct7(w) = Codes[k].funct7
<1>1. /\ Codes.ADD = Code(OP, 0, BASE) /\ Codes.SUB = Code(OP, 0, ALTERNATE)
      /\ Codes.SLL = Code(OP, 1, BASE) /\ Codes.SLT = Code(OP, 2, BASE)
      /\ Codes.SLTU = Code(OP, 3, BASE) /\ Codes.XOR = Code(OP, 4, BASE)
      /\ Codes.SRL = Code(OP, 5, BASE) /\ Codes.SRA = Code(OP, 5, ALTERNATE)
      /\ Codes.OR = Code(OP, 6, BASE) /\ Codes.AND = Code(OP, 7, BASE)
  BY DEF Codes
<1>2. Funct3(w) \in 0 .. 7  BY FieldsTyped
<1>3. CASE Funct3(w) = 0  BY <1>1, <1>3, FunctBits DEF RegisterKind, RegisterOps, RKinds, Code
<1>4. CASE Funct3(w) = 1  BY <1>1, <1>4, FunctBits DEF RegisterKind, RegisterOps, RKinds, Code
<1>5. CASE Funct3(w) = 2  BY <1>1, <1>5, FunctBits DEF RegisterKind, RegisterOps, RKinds, Code
<1>6. CASE Funct3(w) = 3  BY <1>1, <1>6, FunctBits DEF RegisterKind, RegisterOps, RKinds, Code
<1>7. CASE Funct3(w) = 4  BY <1>1, <1>7, FunctBits DEF RegisterKind, RegisterOps, RKinds, Code
<1>8. CASE Funct3(w) = 5  BY <1>1, <1>8, FunctBits DEF RegisterKind, RegisterOps, RKinds, Code
<1>9. CASE Funct3(w) = 6  BY <1>1, <1>9, FunctBits DEF RegisterKind, RegisterOps, RKinds, Code
<1>10. CASE Funct3(w) = 7  BY <1>1, <1>10, FunctBits DEF RegisterKind, RegisterOps, RKinds, Code
<1> QED  BY <1>2, <1>3, <1>4, <1>5, <1>6, <1>7, <1>8, <1>9, <1>10

ArithmeticKinds == {"ADDI", "SLTI", "SLTIU", "XORI", "ORI", "ANDI"}
LoadKinds == {"LB", "LH", "LW", "LBU", "LHU"}

LEMMA ImmediateKinds ==
  ASSUME NEW w \in WordBits
  PROVE  /\ ImmediateKind(w) \in ArithmeticKinds \cup ShiftKinds \cup {"UNKNOWN"}
         /\ \A k \in ArithmeticKinds : ImmediateKind(w) = k <=> Funct3(w) = Codes[k].funct3
         /\ \A k \in ShiftKinds : ImmediateKind(w) = k <=> /\ Funct3(w) = Codes[k].funct3
                                                          /\ Funct7(w) = Codes[k].funct7
         /\ Funct3(w) \in {1, 5} <=> ImmediateKind(w) \in ShiftKinds \cup {"UNKNOWN"}
<1>1. /\ Codes.ADDI = Code(OP_IMM, 0, BASE) /\ Codes.SLTI = Code(OP_IMM, 2, BASE)
      /\ Codes.SLTIU = Code(OP_IMM, 3, BASE) /\ Codes.XORI = Code(OP_IMM, 4, BASE)
      /\ Codes.ORI = Code(OP_IMM, 6, BASE) /\ Codes.ANDI = Code(OP_IMM, 7, BASE)
      /\ Codes.SLLI = Code(OP_IMM, 1, BASE) /\ Codes.SRLI = Code(OP_IMM, 5, BASE)
      /\ Codes.SRAI = Code(OP_IMM, 5, ALTERNATE)
  BY DEF Codes
<1>2. Funct3(w) \in 0 .. 7  BY FieldsTyped
<1>3. CASE Funct3(w) = 0
  BY <1>1, <1>3, FunctBits DEF ImmediateKind, ImmediateOps, ArithmeticKinds, ShiftKinds, Code
<1>4. CASE Funct3(w) = 1
  BY <1>1, <1>4, FunctBits DEF ImmediateKind, ImmediateOps, ArithmeticKinds, ShiftKinds, Code
<1>5. CASE Funct3(w) = 2
  BY <1>1, <1>5, FunctBits DEF ImmediateKind, ImmediateOps, ArithmeticKinds, ShiftKinds, Code
<1>6. CASE Funct3(w) = 3
  BY <1>1, <1>6, FunctBits DEF ImmediateKind, ImmediateOps, ArithmeticKinds, ShiftKinds, Code
<1>7. CASE Funct3(w) = 4
  BY <1>1, <1>7, FunctBits DEF ImmediateKind, ImmediateOps, ArithmeticKinds, ShiftKinds, Code
<1>8. CASE Funct3(w) = 5
  BY <1>1, <1>8, FunctBits DEF ImmediateKind, ImmediateOps, ArithmeticKinds, ShiftKinds, Code
<1>9. CASE Funct3(w) = 6
  BY <1>1, <1>9, FunctBits DEF ImmediateKind, ImmediateOps, ArithmeticKinds, ShiftKinds, Code
<1>10. CASE Funct3(w) = 7
  BY <1>1, <1>10, FunctBits DEF ImmediateKind, ImmediateOps, ArithmeticKinds, ShiftKinds, Code
<1> QED  BY <1>2, <1>3, <1>4, <1>5, <1>6, <1>7, <1>8, <1>9, <1>10

\* The same of the branches.
LEMMA BranchKinds ==
  ASSUME NEW w \in WordBits
  PROVE  /\ BranchOps[Funct3(w) + 1] \in BKinds \cup {"UNKNOWN"}
         /\ \A k \in BKinds : BranchOps[Funct3(w) + 1] = k <=> Funct3(w) = Codes[k].funct3
<1>1. /\ Codes.BEQ = Code(BRANCH, 0, BASE) /\ Codes.BNE = Code(BRANCH, 1, BASE)
      /\ Codes.BLT = Code(BRANCH, 4, BASE) /\ Codes.BGE = Code(BRANCH, 5, BASE)
      /\ Codes.BLTU = Code(BRANCH, 6, BASE) /\ Codes.BGEU = Code(BRANCH, 7, BASE)
  BY DEF Codes
<1>2. Funct3(w) \in 0 .. 7  BY FieldsTyped
<1>3. CASE Funct3(w) = 0  BY <1>1, <1>3, FunctBits DEF BranchOps, BKinds, Code
<1>4. CASE Funct3(w) = 1  BY <1>1, <1>4, FunctBits DEF BranchOps, BKinds, Code
<1>5. CASE Funct3(w) = 2  BY <1>1, <1>5, FunctBits DEF BranchOps, BKinds, Code
<1>6. CASE Funct3(w) = 3  BY <1>1, <1>6, FunctBits DEF BranchOps, BKinds, Code
<1>7. CASE Funct3(w) = 4  BY <1>1, <1>7, FunctBits DEF BranchOps, BKinds, Code
<1>8. CASE Funct3(w) = 5  BY <1>1, <1>8, FunctBits DEF BranchOps, BKinds, Code
<1>9. CASE Funct3(w) = 6  BY <1>1, <1>9, FunctBits DEF BranchOps, BKinds, Code
<1>10. CASE Funct3(w) = 7  BY <1>1, <1>10, FunctBits DEF BranchOps, BKinds, Code
<1> QED  BY <1>2, <1>3, <1>4, <1>5, <1>6, <1>7, <1>8, <1>9, <1>10

\* The same of the loads.
LEMMA LoadsKinds ==
  ASSUME NEW w \in WordBits
  PROVE  /\ LoadOps[Funct3(w) + 1] \in LoadKinds \cup {"UNKNOWN"}
         /\ \A k \in LoadKinds : LoadOps[Funct3(w) + 1] = k <=> Funct3(w) = Codes[k].funct3
<1>1. /\ Codes.LB = Code(LOAD, 0, BASE) /\ Codes.LH = Code(LOAD, 1, BASE)
      /\ Codes.LW = Code(LOAD, 2, BASE) /\ Codes.LBU = Code(LOAD, 4, BASE)
      /\ Codes.LHU = Code(LOAD, 5, BASE)
  BY DEF Codes
<1>2. Funct3(w) \in 0 .. 7  BY FieldsTyped
<1>3. CASE Funct3(w) = 0  BY <1>1, <1>3, FunctBits DEF LoadOps, LoadKinds, Code
<1>4. CASE Funct3(w) = 1  BY <1>1, <1>4, FunctBits DEF LoadOps, LoadKinds, Code
<1>5. CASE Funct3(w) = 2  BY <1>1, <1>5, FunctBits DEF LoadOps, LoadKinds, Code
<1>6. CASE Funct3(w) = 3  BY <1>1, <1>6, FunctBits DEF LoadOps, LoadKinds, Code
<1>7. CASE Funct3(w) = 4  BY <1>1, <1>7, FunctBits DEF LoadOps, LoadKinds, Code
<1>8. CASE Funct3(w) = 5  BY <1>1, <1>8, FunctBits DEF LoadOps, LoadKinds, Code
<1>9. CASE Funct3(w) = 6  BY <1>1, <1>9, FunctBits DEF LoadOps, LoadKinds, Code
<1>10. CASE Funct3(w) = 7  BY <1>1, <1>10, FunctBits DEF LoadOps, LoadKinds, Code
<1> QED  BY <1>2, <1>3, <1>4, <1>5, <1>6, <1>7, <1>8, <1>9, <1>10

\* The same of the stores.
LEMMA StoreKinds ==
  ASSUME NEW w \in WordBits
  PROVE  /\ StoreOps[Funct3(w) + 1] \in SKinds \cup {"UNKNOWN"}
         /\ \A k \in SKinds : StoreOps[Funct3(w) + 1] = k <=> Funct3(w) = Codes[k].funct3
<1>1. /\ Codes.SB = Code(STORE, 0, BASE) /\ Codes.SH = Code(STORE, 1, BASE)
      /\ Codes.SW = Code(STORE, 2, BASE)
  BY DEF Codes
<1>2. Funct3(w) \in 0 .. 7  BY FieldsTyped
<1>3. CASE Funct3(w) = 0  BY <1>1, <1>3, FunctBits DEF StoreOps, SKinds, Code
<1>4. CASE Funct3(w) = 1  BY <1>1, <1>4, FunctBits DEF StoreOps, SKinds, Code
<1>5. CASE Funct3(w) = 2  BY <1>1, <1>5, FunctBits DEF StoreOps, SKinds, Code
<1>6. CASE Funct3(w) = 3  BY <1>1, <1>6, FunctBits DEF StoreOps, SKinds, Code
<1>7. CASE Funct3(w) = 4  BY <1>1, <1>7, FunctBits DEF StoreOps, SKinds, Code
<1>8. CASE Funct3(w) = 5  BY <1>1, <1>8, FunctBits DEF StoreOps, SKinds, Code
<1>9. CASE Funct3(w) = 6  BY <1>1, <1>9, FunctBits DEF StoreOps, SKinds, Code
<1>10. CASE Funct3(w) = 7  BY <1>1, <1>10, FunctBits DEF StoreOps, SKinds, Code
<1> QED  BY <1>2, <1>3, <1>4, <1>5, <1>6, <1>7, <1>8, <1>9, <1>10

\* The opcodes of the kinds.
LEMMA CodesAre ==
  /\ DOMAIN Codes = RKinds \cup ShiftKinds \cup ArithmeticKinds \cup LoadKinds \cup SKinds
                    \cup BKinds \cup {"JALR", "LUI", "AUIPC", "JAL", "ECALL", "EBREAK"}
  /\ \A k \in RKinds : Codes[k].opcode = OP
  /\ \A k \in ShiftKinds \cup ArithmeticKinds : Codes[k].opcode = OP_IMM
  /\ \A k \in LoadKinds : Codes[k].opcode = LOAD
  /\ \A k \in SKinds : Codes[k].opcode = STORE
  /\ \A k \in BKinds : Codes[k].opcode = BRANCH
  /\ Codes.JALR = Code(JALR, 0, BASE) /\ Codes.LUI = Code(LUI, 0, BASE)
  /\ Codes.AUIPC = Code(AUIPC, 0, BASE) /\ Codes.JAL = Code(JAL, 0, BASE)
  /\ Codes.ECALL = Code(SYSTEM, 0, BASE) /\ Codes.EBREAK = Code(SYSTEM, 0, BASE)
<1>1. DOMAIN Codes = RKinds \cup ShiftKinds \cup ArithmeticKinds \cup LoadKinds \cup SKinds
                     \cup BKinds \cup {"JALR", "LUI", "AUIPC", "JAL", "ECALL", "EBREAK"}
  BY DEF Codes, RKinds, ShiftKinds, ArithmeticKinds, LoadKinds, SKinds, BKinds
<1>2. \A k \in RKinds : Codes[k].opcode = OP  BY DEF Codes, RKinds, Code
<1>3. \A k \in ShiftKinds \cup ArithmeticKinds : Codes[k].opcode = OP_IMM
  BY DEF Codes, ShiftKinds, ArithmeticKinds, Code
<1>4. \A k \in LoadKinds : Codes[k].opcode = LOAD  BY DEF Codes, LoadKinds, Code
<1>5. \A k \in SKinds : Codes[k].opcode = STORE  BY DEF Codes, SKinds, Code
<1>6. \A k \in BKinds : Codes[k].opcode = BRANCH  BY DEF Codes, BKinds, Code
<1>7. /\ Codes.JALR = Code(JALR, 0, BASE) /\ Codes.LUI = Code(LUI, 0, BASE)
      /\ Codes.AUIPC = Code(AUIPC, 0, BASE) /\ Codes.JAL = Code(JAL, 0, BASE)
      /\ Codes.ECALL = Code(SYSTEM, 0, BASE) /\ Codes.EBREAK = Code(SYSTEM, 0, BASE)
  BY DEF Codes
<1> QED  BY <1>1, <1>2, <1>3, <1>4, <1>5, <1>6, <1>7

LEMMA CodesTyped == \A k \in DOMAIN Codes : Coded(Codes[k])
<1>1. \A k \in RKinds \cup ShiftKinds \cup ArithmeticKinds \cup LoadKinds \cup SKinds \cup BKinds :
        Codes[k].funct7 \in {BASE, ALTERNATE} /\ Codes[k].funct3 \in 0 .. 7
  <2>1. \A k \in RKinds : Codes[k].funct7 \in {BASE, ALTERNATE} /\ Codes[k].funct3 \in 0 .. 7
    BY DEF Codes, RKinds, Code
  <2>2. \A k \in ShiftKinds : Codes[k].funct7 \in {BASE, ALTERNATE} /\ Codes[k].funct3 \in 0 .. 7
    BY DEF Codes, ShiftKinds, Code
  <2>3. \A k \in ArithmeticKinds :
          Codes[k].funct7 \in {BASE, ALTERNATE} /\ Codes[k].funct3 \in 0 .. 7
    BY DEF Codes, ArithmeticKinds, Code
  <2>4. \A k \in LoadKinds : Codes[k].funct7 \in {BASE, ALTERNATE} /\ Codes[k].funct3 \in 0 .. 7
    BY DEF Codes, LoadKinds, Code
  <2>5. \A k \in SKinds : Codes[k].funct7 \in {BASE, ALTERNATE} /\ Codes[k].funct3 \in 0 .. 7
    BY DEF Codes, SKinds, Code
  <2>6. \A k \in BKinds : Codes[k].funct7 \in {BASE, ALTERNATE} /\ Codes[k].funct3 \in 0 .. 7
    BY DEF Codes, BKinds, Code
  <2> QED  BY <2>1, <2>2, <2>3, <2>4, <2>5, <2>6
<1>4. \A k \in {"JALR", "LUI", "AUIPC", "JAL", "ECALL", "EBREAK"} :
         Codes[k].funct7 \in SUBSET (0 .. 6) /\ Codes[k].funct3 \in 0 .. 7
  BY CodesAre, FunctBits DEF Code
<1>5. \A k \in {"JALR", "LUI", "AUIPC", "JAL", "ECALL", "EBREAK"} :
         Codes[k].opcode \in {JALR, LUI, AUIPC, JAL, SYSTEM}
  BY CodesAre DEF Code
<1>6. \A k \in DOMAIN Codes : Codes[k].opcode \in SUBSET (0 .. 6)
  BY <1>5, CodesAre, OpcodeBits DEF Bits
<1> QED  BY <1>1, <1>4, <1>6, CodesAre, FunctBits DEF Coded

\* No kind is in two formats.
LEMMA KindsApart ==
  /\ \A k \in RKinds : k \notin ShiftKinds \cup IKinds \cup SKinds \cup BKinds
                               \cup {"LUI", "AUIPC", "JAL", "ECALL", "EBREAK", "UNKNOWN", "FENCE"}
  /\ \A k \in ShiftKinds : k \notin IKinds \cup SKinds \cup BKinds
                               \cup {"LUI", "AUIPC", "JAL", "ECALL", "EBREAK", "UNKNOWN", "FENCE"}
  /\ \A k \in IKinds : k \notin SKinds \cup BKinds
                               \cup {"LUI", "AUIPC", "JAL", "ECALL", "EBREAK", "UNKNOWN", "FENCE"}
  /\ \A k \in SKinds : k \notin BKinds
                               \cup {"LUI", "AUIPC", "JAL", "ECALL", "EBREAK", "UNKNOWN", "FENCE"}
  /\ \A k \in BKinds : k \notin {"LUI", "AUIPC", "JAL", "ECALL", "EBREAK", "UNKNOWN", "FENCE"}
  /\ IKinds = ArithmeticKinds \cup LoadKinds \cup {"JALR"}
  /\ ArithmeticKinds \cap LoadKinds = {} /\ "JALR" \notin ArithmeticKinds \cup LoadKinds
<1>1. /\ \A k \in RKinds : k \notin ShiftKinds \cup IKinds \cup SKinds \cup BKinds
      /\ \A k \in ShiftKinds : k \notin IKinds \cup SKinds \cup BKinds
      /\ \A k \in IKinds : k \notin SKinds \cup BKinds
      /\ \A k \in SKinds : k \notin BKinds
  BY DEF RKinds, ShiftKinds, IKinds, SKinds, BKinds
<1>2. \A k \in RKinds \cup ShiftKinds \cup IKinds \cup SKinds \cup BKinds :
        k \notin {"LUI", "AUIPC", "JAL", "ECALL", "EBREAK", "UNKNOWN", "FENCE"}
  BY DEF RKinds, ShiftKinds, IKinds, SKinds, BKinds
<1>3. /\ IKinds = ArithmeticKinds \cup LoadKinds \cup {"JALR"}
      /\ ArithmeticKinds \cap LoadKinds = {} /\ "JALR" \notin ArithmeticKinds \cup LoadKinds
  BY DEF IKinds, ArithmeticKinds, LoadKinds
<1> QED  BY <1>1, <1>2, <1>3

\* What the word of an instruction of this kind has in its fixed fields.
Matches(w, k) ==
  /\ Opcode(w) = Codes[k].opcode
  /\ k \notin {"LUI", "AUIPC", "JAL"} => Funct3(w) = Codes[k].funct3
  /\ k \in RKinds \cup ShiftKinds => Funct7(w) = Codes[k].funct7
  /\ k = "ECALL" => w = SYSTEM
  /\ k = "EBREAK" => w = SYSTEM \cup {20}

\* The decoder recognises these fields, and nothing else.
LEMMA MatchedKind ==
  ASSUME NEW w \in WordBits, NEW k \in DOMAIN Codes, Matches(w, k)
  PROVE  Kind(w) = k
<1>1. CASE k \in RKinds
  <2>1. Opcode(w) = OP  BY <1>1, CodesAre DEF Matches
  <2>2. Kind(w) = RegisterKind(w)  BY <2>1 DEF Kind
  <2>3. Funct3(w) = Codes[k].funct3 /\ Funct7(w) = Codes[k].funct7
    BY <1>1, KindsApart DEF Matches
  <2> QED  BY <1>1, <2>2, <2>3, RegisterKinds
<1>2. CASE k \in ShiftKinds \cup ArithmeticKinds
  <2>1. Opcode(w) = OP_IMM  BY <1>2, CodesAre DEF Matches
  <2>2. Kind(w) = ImmediateKind(w)  BY <2>1, OpcodesApart DEF Kind
  <2>3. /\ Funct3(w) = Codes[k].funct3
        /\ k \in ShiftKinds => Funct7(w) = Codes[k].funct7
    BY <1>2, KindsApart DEF Matches
  <2> QED  BY <1>2, <2>2, <2>3, ImmediateKinds
<1>3. CASE k \in LoadKinds
  <2>1. Opcode(w) = LOAD  BY <1>3, CodesAre DEF Matches
  <2>2. Kind(w) = LoadOps[Funct3(w) + 1]  BY <2>1, OpcodesApart DEF Kind
  <2>3. Funct3(w) = Codes[k].funct3  BY <1>3, KindsApart DEF Matches
  <2> QED  BY <1>3, <2>2, <2>3, LoadsKinds
<1>4. CASE k \in SKinds
  <2>1. Opcode(w) = STORE  BY <1>4, CodesAre DEF Matches
  <2>2. Kind(w) = StoreOps[Funct3(w) + 1]  BY <2>1, OpcodesApart DEF Kind
  <2>3. Funct3(w) = Codes[k].funct3  BY <1>4, KindsApart DEF Matches
  <2> QED  BY <1>4, <2>2, <2>3, StoreKinds
<1>5. CASE k \in BKinds
  <2>1. Opcode(w) = BRANCH  BY <1>5, CodesAre DEF Matches
  <2>2. Kind(w) = BranchOps[Funct3(w) + 1]  BY <2>1, OpcodesApart DEF Kind
  <2>3. Funct3(w) = Codes[k].funct3  BY <1>5, KindsApart DEF Matches
  <2> QED  BY <1>5, <2>2, <2>3, BranchKinds
<1>6. CASE k = "JALR"
  <2>1. Opcode(w) = JALR /\ Funct3(w) = 0  BY <1>6, CodesAre DEF Matches, Code
  <2> QED  BY <1>6, <2>1, OpcodesApart DEF Kind
<1>7. CASE k \in {"LUI", "AUIPC", "JAL"}
  <2>1. \/ k = "LUI" /\ Opcode(w) = LUI
        \/ k = "AUIPC" /\ Opcode(w) = AUIPC
        \/ k = "JAL" /\ Opcode(w) = JAL
    BY <1>7, CodesAre DEF Matches, Code
  <2> QED  BY <2>1, OpcodesApart DEF Kind
<1>8. CASE k \in {"ECALL", "EBREAK"}
  <2>1. Opcode(w) = SYSTEM  BY <1>8, CodesAre DEF Matches, Code
  <2>2. Kind(w) = SystemKind(w)  BY <2>1, OpcodesApart DEF Kind
  <2>3. 20 \notin SYSTEM  BY DEF SYSTEM
  <2> QED  BY <1>8, <2>2, <2>3 DEF SystemKind, Matches
<1> QED  BY <1>1, <1>2, <1>3, <1>4, <1>5, <1>6, <1>7, <1>8, CodesAre

LEMMA KindMatches ==
  ASSUME NEW w \in WordBits, Kind(w) \notin {"UNKNOWN", "FENCE"}
  PROVE  Kind(w) \in DOMAIN Codes /\ Matches(w, Kind(w))
<1>1. CASE Opcode(w) = OP
  <2>1. Kind(w) = RegisterKind(w)  BY <1>1 DEF Kind
  <2>2. Kind(w) \in RKinds  BY <2>1, RegisterKinds
  <2>3. Funct3(w) = Codes[Kind(w)].funct3 /\ Funct7(w) = Codes[Kind(w)].funct7
    BY <2>1, <2>2, RegisterKinds
  <2> QED  BY <1>1, <2>2, <2>3, CodesAre, KindsApart DEF Matches
<1>2. CASE Opcode(w) = OP_IMM
  <2>1. Kind(w) = ImmediateKind(w)  BY <1>2, OpcodesApart DEF Kind
  <2>2. Kind(w) \in ArithmeticKinds \cup ShiftKinds  BY <2>1, ImmediateKinds
  <2>3. /\ Funct3(w) = Codes[Kind(w)].funct3
        /\ Kind(w) \in ShiftKinds => Funct7(w) = Codes[Kind(w)].funct7
    BY <2>1, <2>2, ImmediateKinds
  <2>4. Kind(w) \notin RKinds \cup {"ECALL", "EBREAK"}  BY <2>2, KindsApart
  <2> QED  BY <1>2, <2>2, <2>3, <2>4, CodesAre DEF Matches
<1>3. CASE Opcode(w) = LUI
  <2>1. Kind(w) = "LUI"  BY <1>3, OpcodesApart DEF Kind
  <2>2. "LUI" \notin RKinds \cup ShiftKinds  BY KindsApart
  <2> QED  BY <1>3, <2>1, <2>2, CodesAre DEF Matches, Code
<1>4. CASE Opcode(w) = AUIPC
  <2>1. Kind(w) = "AUIPC"  BY <1>4, OpcodesApart DEF Kind
  <2>2. "AUIPC" \notin RKinds \cup ShiftKinds  BY KindsApart
  <2> QED  BY <1>4, <2>1, <2>2, CodesAre DEF Matches, Code
<1>5. CASE Opcode(w) = JAL
  <2>1. Kind(w) = "JAL"  BY <1>5, OpcodesApart DEF Kind
  <2>2. "JAL" \notin RKinds \cup ShiftKinds  BY KindsApart
  <2> QED  BY <1>5, <2>1, <2>2, CodesAre DEF Matches, Code
<1>6. CASE Opcode(w) = JALR
  <2>1. Kind(w) = "JALR" /\ Funct3(w) = 0  BY <1>6, OpcodesApart DEF Kind
  <2>2. "JALR" \notin RKinds \cup ShiftKinds  BY KindsApart
  <2> QED  BY <1>6, <2>1, <2>2, CodesAre DEF Matches, Code
<1>7. CASE Opcode(w) = BRANCH
  <2>1. Kind(w) = BranchOps[Funct3(w) + 1]  BY <1>7, OpcodesApart DEF Kind
  <2>2. Kind(w) \in BKinds  BY <2>1, BranchKinds
  <2>3. Funct3(w) = Codes[Kind(w)].funct3  BY <2>1, <2>2, BranchKinds
  <2> QED  BY <1>7, <2>2, <2>3, CodesAre, KindsApart DEF Matches
<1>8. CASE Opcode(w) = LOAD
  <2>1. Kind(w) = LoadOps[Funct3(w) + 1]  BY <1>8, OpcodesApart DEF Kind
  <2>2. Kind(w) \in LoadKinds  BY <2>1, LoadsKinds
  <2>3. Funct3(w) = Codes[Kind(w)].funct3  BY <2>1, <2>2, LoadsKinds
  <2> QED  BY <1>8, <2>2, <2>3, CodesAre, KindsApart DEF Matches
<1>9. CASE Opcode(w) = STORE
  <2>1. Kind(w) = StoreOps[Funct3(w) + 1]  BY <1>9, OpcodesApart DEF Kind
  <2>2. Kind(w) \in SKinds  BY <2>1, StoreKinds
  <2>3. Funct3(w) = Codes[Kind(w)].funct3  BY <2>1, <2>2, StoreKinds
  <2> QED  BY <1>9, <2>2, <2>3, CodesAre, KindsApart DEF Matches
<1>10. CASE Opcode(w) = SYSTEM
  <2>1. Kind(w) = SystemKind(w)  BY <1>10, OpcodesApart DEF Kind
  <2>2. \/ Kind(w) = "ECALL" /\ w = SYSTEM
        \/ Kind(w) = "EBREAK" /\ w = SYSTEM \cup {20}
    BY <2>1 DEF SystemKind
  <2>3. Funct3(w) = 0  BY <2>2 DEF Funct3, SYSTEM
  <2>4. Kind(w) \notin RKinds \cup ShiftKinds  BY <2>2, KindsApart
  <2> QED  BY <1>10, <2>2, <2>3, <2>4, CodesAre DEF Matches, Code
<1>11. Opcode(w) \in {OP, OP_IMM, LUI, AUIPC, JAL, JALR, BRANCH, LOAD, STORE, SYSTEM}
  BY DEF Kind
<1> QED
  BY <1>1, <1>2, <1>3, <1>4, <1>5, <1>6, <1>7, <1>8, <1>9, <1>10, <1>11

\* Every kind is in one of the formats.
LEMMA KindIsOne ==
  ASSUME NEW k \in DOMAIN Codes
  PROVE  \/ k \in RKinds \/ k \in ShiftKinds \/ k \in IKinds \/ k \in SKinds \/ k \in BKinds
         \/ k \in {"LUI", "AUIPC"} \/ k = "JAL" \/ k \in {"ECALL", "EBREAK"}
<1>1. DOMAIN Codes = RKinds \cup ShiftKinds \cup ArithmeticKinds \cup LoadKinds \cup SKinds
                     \cup BKinds \cup {"JALR", "LUI", "AUIPC", "JAL", "ECALL", "EBREAK"}
  BY CodesAre
<1>2. IKinds = ArithmeticKinds \cup LoadKinds \cup {"JALR"}  BY KindsApart
<1> QED  BY <1>1, <1>2

\* Which immediate the decoder takes for a kind.
LEMMA ImmediateOfKind ==
  ASSUME NEW w \in WordBits, NEW k \in DOMAIN Codes, Matches(w, k)
  PROVE  /\ k \in ShiftKinds => Immediate(w) = Rs2(w)
         /\ k \in IKinds => Immediate(w) = ImmediateI(w)
         /\ k \in SKinds => Immediate(w) = ImmediateS(w)
         /\ k \in BKinds => Immediate(w) = ImmediateB(w)
         /\ k \in {"LUI", "AUIPC"} => Immediate(w) = ImmediateU(w)
         /\ k = "JAL" => Immediate(w) = ImmediateJ(w)
         /\ k \in RKinds \cup {"ECALL", "EBREAK"} => Immediate(w) = {}
<1>1. CASE k \in ShiftKinds \cup ArithmeticKinds
  <2>1. Opcode(w) = OP_IMM  BY <1>1, CodesAre DEF Matches
  <2>2. ImmediateKind(w) = k  BY <2>1, MatchedKind, OpcodesApart DEF Kind
  <2>3. k # "UNKNOWN" /\ (k \in ShiftKinds => k \notin IKinds \cup RKinds \cup SKinds \cup BKinds)
    BY <1>1, KindsApart
  <2>4. Funct3(w) \in {1, 5} <=> k \in ShiftKinds  BY <2>2, <2>3, ImmediateKinds
  <2>5. k \notin RKinds \cup SKinds \cup BKinds \cup {"LUI", "AUIPC", "JAL", "ECALL", "EBREAK"}
    BY <1>1, KindsApart
  <2>6. Immediate(w) = IF k \in ShiftKinds THEN Rs2(w) ELSE ImmediateI(w)
    BY <2>1, <2>4 DEF Immediate
  <2> QED  BY <2>3, <2>5, <2>6
<1>2. CASE k \in LoadKinds \cup {"JALR"}
  <2>1. Opcode(w) \in {LOAD, JALR}  BY <1>2, CodesAre DEF Matches, Code
  <2>2. Immediate(w) = ImmediateI(w)  BY <2>1, OpcodesApart DEF Immediate
  <2>3. k \notin ShiftKinds \cup RKinds \cup SKinds \cup BKinds
                   \cup {"LUI", "AUIPC", "JAL", "ECALL", "EBREAK"}
    BY <1>2, KindsApart
  <2> QED  BY <2>2, <2>3
<1>3. CASE k \in SKinds
  <2>1. Opcode(w) = STORE  BY <1>3, CodesAre DEF Matches
  <2>2. Immediate(w) = ImmediateS(w)  BY <2>1, OpcodesApart DEF Immediate
  <2> QED  BY <1>3, <2>2, KindsApart
<1>4. CASE k \in BKinds
  <2>1. Opcode(w) = BRANCH  BY <1>4, CodesAre DEF Matches
  <2>2. Immediate(w) = ImmediateB(w)  BY <2>1, OpcodesApart DEF Immediate
  <2> QED  BY <1>4, <2>2, KindsApart
<1>5. CASE k \in {"LUI", "AUIPC"}
  <2>1. Opcode(w) \in {LUI, AUIPC}  BY <1>5, CodesAre DEF Matches, Code
  <2>2. Immediate(w) = ImmediateU(w)  BY <2>1, OpcodesApart DEF Immediate
  <2> QED  BY <1>5, <2>2, KindsApart
<1>6. CASE k = "JAL"
  <2>1. Opcode(w) = JAL  BY <1>6, CodesAre DEF Matches, Code
  <2>2. Immediate(w) = ImmediateJ(w)  BY <2>1, OpcodesApart DEF Immediate
  <2> QED  BY <1>6, <2>2, KindsApart
<1>7. CASE k \in RKinds \cup {"ECALL", "EBREAK"}
  <2>1. Opcode(w) \in {OP, SYSTEM}  BY <1>7, CodesAre DEF Matches, Code
  <2>2. Immediate(w) = {}  BY <2>1, OpcodesApart DEF Immediate
  <2> QED  BY <1>7, <2>2, KindsApart
<1> QED  BY <1>1, <1>2, <1>3, <1>4, <1>5, <1>6, <1>7, CodesAre

\* Which encoder makes an instruction.
LEMMA EncoderOfKind ==
  ASSUME NEW asm, asm.kind \in DOMAIN Codes
  PROVE  LET c == Codes[asm.kind]
         IN /\ asm.kind \in RKinds => Encode(asm) = EncodeR(c, asm.rd, asm.rs1, asm.rs2)
            /\ asm.kind \in ShiftKinds => Encode(asm) = EncodeR(c, asm.rd, asm.rs1, asm.immediate)
            /\ asm.kind \in IKinds => Encode(asm) = EncodeI(c, asm.rd, asm.rs1, asm.immediate)
            /\ asm.kind \in SKinds => Encode(asm) = EncodeS(c, asm.rs1, asm.rs2, asm.immediate)
            /\ asm.kind \in BKinds => Encode(asm) = EncodeB(c, asm.rs1, asm.rs2, asm.immediate)
            /\ asm.kind \in {"LUI", "AUIPC"} => Encode(asm) = EncodeU(c, asm.rd, asm.immediate)
            /\ asm.kind = "JAL" => Encode(asm) = EncodeJ(c, asm.rd, asm.immediate)
            /\ asm.kind = "ECALL" => Encode(asm) = c.opcode
            /\ asm.kind = "EBREAK" => Encode(asm) = {20} \cup c.opcode
BY KindsApart DEF Encode

\* What is left of a decoded word by its kind.
LEMMA OperandsOf ==
  ASSUME NEW w
  PROVE  LET k == Kind(w)
         IN Operands(Decode(w)) =
              [kind |-> k,
               rd |-> IF k \in SKinds \cup BKinds \cup {"ECALL", "EBREAK"} THEN {} ELSE Rd(w),
               rs1 |-> IF k \in {"LUI", "AUIPC", "JAL", "ECALL", "EBREAK"} THEN {} ELSE Rs1(w),
               rs2 |-> IF k \in RKinds \cup SKinds \cup BKinds THEN Rs2(w) ELSE {},
               immediate |-> Immediate(w)]
BY DEF Operands, Instruction, Decode

\* Conversely, what can be written is determined by its fields.
LEMMA AssemblyFields ==
  ASSUME NEW asm \in Assembly
  PROVE  /\ asm = [kind |-> asm.kind, rd |-> asm.rd, rs1 |-> asm.rs1, rs2 |-> asm.rs2,
                   immediate |-> asm.immediate]
         /\ asm.kind \in DOMAIN Codes /\ asm.rd \in Register /\ asm.rs1 \in Register
         /\ asm.rs2 \in Register /\ asm.immediate \in WordBits
         /\ asm.kind \in SKinds \cup BKinds \cup {"ECALL", "EBREAK"} => asm.rd = {}
         /\ asm.kind \in {"LUI", "AUIPC", "JAL", "ECALL", "EBREAK"} => asm.rs1 = {}
         /\ asm.kind \notin RKinds \cup SKinds \cup BKinds => asm.rs2 = {}
         /\ asm.kind \in RKinds \cup {"ECALL", "EBREAK"} => asm.immediate = {}
         /\ asm.kind \in ShiftKinds => asm.immediate \in Register
         /\ asm.kind \in IKinds \cup SKinds => asm.immediate \in Immediates(0, 12)
         /\ asm.kind \in BKinds => asm.immediate \in Immediates(1, 13)
         /\ asm.kind \in {"LUI", "AUIPC"} => asm.immediate \in SUBSET (12 .. 31)
         /\ asm.kind = "JAL" => asm.immediate \in Immediates(1, 21)
BY DEF Assembly

\* The encoding of an instruction has the fields of its kind and its operands.
LEMMA EncodedFields ==
  ASSUME NEW asm \in Assembly
  PROVE  LET w == Encode(asm)
             k == asm.kind
         IN /\ w \in WordBits /\ Matches(w, k)
            /\ k \notin SKinds \cup BKinds \cup {"ECALL", "EBREAK"} => Rd(w) = asm.rd
            /\ k \notin {"LUI", "AUIPC", "JAL", "ECALL", "EBREAK"} => Rs1(w) = asm.rs1
            /\ k \in RKinds \cup SKinds \cup BKinds => Rs2(w) = asm.rs2
            /\ Immediate(w) = asm.immediate
<1> DEFINE k == asm.kind
           c == Codes[k]
           w == Encode(asm)
           v == asm.immediate
           Goal == /\ w \in WordBits /\ Matches(w, k)
                   /\ k \notin SKinds \cup BKinds \cup {"ECALL", "EBREAK"} => Rd(w) = asm.rd
                   /\ k \notin {"LUI", "AUIPC", "JAL", "ECALL", "EBREAK"} => Rs1(w) = asm.rs1
                   /\ k \in RKinds \cup SKinds \cup BKinds => Rs2(w) = asm.rs2
                   /\ Immediate(w) = v
<1> SUFFICES Goal
  OBVIOUS
<1>1. /\ k \in DOMAIN Codes /\ Coded(c) /\ v \in WordBits
      /\ asm.rd \in Register /\ asm.rs1 \in Register /\ asm.rs2 \in Register
  BY AssemblyFields, CodesTyped
<1>2. /\ c.opcode \in SUBSET (0 .. 6) /\ c.funct7 \in SUBSET (0 .. 6) /\ c.funct3 \in 0 .. 7
  BY <1>1 DEF Coded
<1>3. CASE k \in RKinds \cup ShiftKinds
  <2> DEFINE r == IF k \in RKinds THEN asm.rs2 ELSE v
  <2>1. w = EncodeR(c, asm.rd, asm.rs1, r)  BY <1>1, <1>3, EncoderOfKind
  <2>2. r \in Register  BY <1>1, <1>3, AssemblyFields
  <2>3. w \in WordBits /\ Cut(w, c.opcode, asm.rd, Third(c), asm.rs1, r, c.funct7)
    BY <1>1, <2>1, <2>2, EncodedR
  <2>4. /\ Opcode(w) = c.opcode /\ Rd(w) = asm.rd /\ Rs1(w) = asm.rs1 /\ Rs2(w) = r
        /\ Funct7(w) = c.funct7 /\ Funct3(w) = c.funct3
    BY <1>1, <1>2, <2>2, <2>3, Fields, Funct3Field DEF Cut, Third
  <2>5. k \notin SKinds \cup BKinds \cup {"LUI", "AUIPC", "JAL", "ECALL", "EBREAK"}
        /\ (k \in RKinds => k \notin ShiftKinds)
    BY <1>3, KindsApart
  <2>6. Matches(w, k)  BY <2>4, <2>5 DEF Matches
  <2>7. Immediate(w) = v
    BY <1>1, <1>3, <2>3, <2>4, <2>5, <2>6, ImmediateOfKind, AssemblyFields
  <2> QED  BY <1>3, <2>3, <2>4, <2>5, <2>6, <2>7
<1>4. CASE k \in IKinds
  <2>1. w = EncodeI(c, asm.rd, asm.rs1, v)  BY <1>1, <1>4, EncoderOfKind
  <2>2. w \in WordBits /\ CutI(w, c.opcode, asm.rd, Third(c), asm.rs1, v)
    BY <1>1, <2>1, EncodedI
  <2>3. /\ Opcode(w) = c.opcode /\ Rd(w) = asm.rd /\ Rs1(w) = asm.rs1
        /\ Funct3(w) = c.funct3
    BY <1>1, <1>2, <2>2, Fields, Funct3Field DEF CutI, Third
  <2>4. k \notin RKinds \cup ShiftKinds \cup SKinds \cup BKinds
                   \cup {"LUI", "AUIPC", "JAL", "ECALL", "EBREAK"}
    BY <1>4, KindsApart
  <2>5. Matches(w, k)  BY <2>3, <2>4 DEF Matches
  <2>6. v \in Immediates(0, 12)  BY <1>4, AssemblyFields
  <2>7. ImmediateI(w) = v  BY <2>2, <2>6, ImmediateFound
  <2>8. Immediate(w) = v  BY <1>1, <1>4, <2>2, <2>5, <2>7, ImmediateOfKind
  <2> QED  BY <2>2, <2>3, <2>4, <2>5, <2>8
<1>5. CASE k \in SKinds
  <2>1. w = EncodeS(c, asm.rs1, asm.rs2, v)  BY <1>1, <1>5, EncoderOfKind
  <2>2. w \in WordBits /\ CutS(w, c.opcode, Third(c), asm.rs1, asm.rs2, v)
    BY <1>1, <2>1, EncodedS
  <2>3. /\ Opcode(w) = c.opcode /\ Rs1(w) = asm.rs1 /\ Rs2(w) = asm.rs2
        /\ Funct3(w) = c.funct3
    BY <1>1, <1>2, <2>2, Fields, Funct3Field DEF CutS, Third
  <2>4. k \notin RKinds \cup ShiftKinds \cup {"LUI", "AUIPC", "JAL", "ECALL", "EBREAK"}
    BY <1>5, KindsApart
  <2>5. Matches(w, k)  BY <2>3, <2>4 DEF Matches
  <2>6. v \in Immediates(0, 12)  BY <1>5, AssemblyFields
  <2>7. ImmediateS(w) = v  BY <2>2, <2>6, ImmediateFound
  <2>8. Immediate(w) = v  BY <1>1, <1>5, <2>2, <2>5, <2>7, ImmediateOfKind
  <2> QED  BY <1>5, <2>2, <2>3, <2>5, <2>8
<1>6. CASE k \in BKinds
  <2>1. w = EncodeB(c, asm.rs1, asm.rs2, v)  BY <1>1, <1>6, EncoderOfKind
  <2>2. w \in WordBits /\ CutB(w, c.opcode, Third(c), asm.rs1, asm.rs2, v)
    BY <1>1, <2>1, EncodedB
  <2>3. /\ Opcode(w) = c.opcode /\ Rs1(w) = asm.rs1 /\ Rs2(w) = asm.rs2
        /\ Funct3(w) = c.funct3
    BY <1>1, <1>2, <2>2, Fields, Funct3Field DEF CutB, Third
  <2>4. k \notin RKinds \cup ShiftKinds \cup {"LUI", "AUIPC", "JAL", "ECALL", "EBREAK"}
    BY <1>6, KindsApart
  <2>5. Matches(w, k)  BY <2>3, <2>4 DEF Matches
  <2>6. v \in Immediates(1, 13)  BY <1>6, AssemblyFields
  <2>7. ImmediateB(w) = v  BY <2>2, <2>6, ImmediateFound
  <2>8. Immediate(w) = v  BY <1>1, <1>6, <2>2, <2>5, <2>7, ImmediateOfKind
  <2> QED  BY <1>6, <2>2, <2>3, <2>5, <2>8
<1>7. CASE k \in {"LUI", "AUIPC"}
  <2>1. w = EncodeU(c, asm.rd, v)  BY <1>1, <1>7, EncoderOfKind
  <2>2. v \in SUBSET (12 .. 31)  BY <1>7, AssemblyFields
  <2>3. w \in WordBits /\ CutU(w, c.opcode, asm.rd, v)  BY <1>1, <2>1, <2>2, EncodedU
  <2>4. Opcode(w) = c.opcode /\ Rd(w) = asm.rd  BY <1>1, <1>2, <2>3, Fields DEF CutU
  <2>5. k \notin RKinds \cup ShiftKinds \cup SKinds \cup BKinds \cup {"ECALL", "EBREAK"}
    BY <1>7, KindsApart
  <2>6. Matches(w, k)  BY <1>7, <2>4, <2>5 DEF Matches
  <2>7. ImmediateU(w) = v  BY <2>2, <2>3, ImmediateFound
  <2>8. Immediate(w) = v  BY <1>1, <1>7, <2>3, <2>6, <2>7, ImmediateOfKind
  <2> QED  BY <1>7, <2>3, <2>4, <2>5, <2>6, <2>8
<1>8. CASE k = "JAL"
  <2>1. w = EncodeJ(c, asm.rd, v)  BY <1>1, <1>8, EncoderOfKind
  <2>2. w \in WordBits /\ CutJ(w, c.opcode, asm.rd, v)  BY <1>1, <2>1, EncodedJ
  <2>3. Opcode(w) = c.opcode /\ Rd(w) = asm.rd  BY <1>1, <1>2, <2>2, Fields DEF CutJ
  <2>4. k \notin RKinds \cup ShiftKinds \cup SKinds \cup BKinds \cup {"ECALL", "EBREAK"}
    BY <1>8, KindsApart
  <2>5. Matches(w, k)  BY <1>8, <2>3, <2>4 DEF Matches
  <2>6. v \in Immediates(1, 21)  BY <1>8, AssemblyFields
  <2>7. ImmediateJ(w) = v  BY <2>2, <2>6, ImmediateFound
  <2>8. Immediate(w) = v  BY <1>1, <1>8, <2>2, <2>5, <2>7, ImmediateOfKind
  <2> QED  BY <1>8, <2>2, <2>3, <2>4, <2>5, <2>8
<1>9. CASE k \in {"ECALL", "EBREAK"}
  <2>1. c = Code(SYSTEM, 0, BASE)  BY <1>9, CodesAre
  <2>2. w = IF k = "ECALL" THEN SYSTEM ELSE {20} \cup SYSTEM
    BY <1>1, <1>9, <2>1, EncoderOfKind DEF Code
  <2>3. /\ SYSTEM \in WordBits /\ {20} \cup SYSTEM \in WordBits
        /\ Opcode(SYSTEM) = SYSTEM /\ Opcode({20} \cup SYSTEM) = SYSTEM
        /\ Funct3(SYSTEM) = 0 /\ Funct3({20} \cup SYSTEM) = 0
    <3>1. \A j : j \in SYSTEM <=> j \in {0, 1, 4, 5, 6}  BY DEF SYSTEM
    <3>2. SYSTEM \in WordBits /\ {20} \cup SYSTEM \in WordBits
      BY <3>1 DEF WordBits, Positions
    <3>3. Opcode(SYSTEM) = SYSTEM /\ Opcode({20} \cup SYSTEM) = SYSTEM
      BY <3>1 DEF Opcode
    <3>4. Funct3(SYSTEM) = 0 /\ Funct3({20} \cup SYSTEM) = 0
      BY <3>1 DEF Funct3
    <3> QED  BY <3>2, <3>3, <3>4
  <2>4. {20} \cup SYSTEM = SYSTEM \cup {20}  OBVIOUS
  <2>5. k \notin RKinds \cup ShiftKinds \cup SKinds \cup BKinds  BY <1>9, KindsApart
  <2>6. w \in WordBits /\ Matches(w, k)
    BY <1>9, <2>1, <2>2, <2>3, <2>4, <2>5 DEF Matches, Code
  <2>7. Immediate(w) = {}  BY <1>1, <1>9, <2>6, ImmediateOfKind
  <2>8. v = {}  BY <1>9, AssemblyFields
  <2> QED  BY <1>9, <2>5, <2>6, <2>7, <2>8
<1>10. \/ k \in RKinds \cup ShiftKinds \/ k \in IKinds \/ k \in SKinds \/ k \in BKinds
       \/ k \in {"LUI", "AUIPC"} \/ k = "JAL" \/ k \in {"ECALL", "EBREAK"}
  BY <1>1, KindIsOne
<1> HIDE DEF Goal
<1>11. Goal
  BY <1>3, <1>4, <1>5, <1>6, <1>7, <1>8, <1>9, <1>10
<1> QED  BY <1>11 DEF Goal

\* So decoding gives back what was encoded.
LEMMA EncodedDecodes ==
  ASSUME NEW asm \in Assembly
  PROVE  Encode(asm) \in WordBits /\ Operands(Decode(Encode(asm))) = asm
<1> DEFINE w == Encode(asm)
           k == asm.kind
<1>1. /\ w \in WordBits /\ Matches(w, k)
      /\ k \notin SKinds \cup BKinds \cup {"ECALL", "EBREAK"} => Rd(w) = asm.rd
      /\ k \notin {"LUI", "AUIPC", "JAL", "ECALL", "EBREAK"} => Rs1(w) = asm.rs1
      /\ k \in RKinds \cup SKinds \cup BKinds => Rs2(w) = asm.rs2
      /\ Immediate(w) = asm.immediate
  BY EncodedFields
<1> HIDE DEF w
<1>2. Kind(w) = k  BY <1>1, MatchedKind, AssemblyFields
<1>3. Operands(Decode(w)) =
        [kind |-> k,
         rd |-> IF k \in SKinds \cup BKinds \cup {"ECALL", "EBREAK"} THEN {} ELSE Rd(w),
         rs1 |-> IF k \in {"LUI", "AUIPC", "JAL", "ECALL", "EBREAK"} THEN {} ELSE Rs1(w),
         rs2 |-> IF k \in RKinds \cup SKinds \cup BKinds THEN Rs2(w) ELSE {},
         immediate |-> Immediate(w)]
  BY <1>2, OperandsOf
<1>4. Operands(Decode(w)) = [kind |-> k, rd |-> asm.rd, rs1 |-> asm.rs1, rs2 |-> asm.rs2,
                             immediate |-> asm.immediate]
  BY <1>1, <1>3, AssemblyFields
<1> QED  BY <1>1, <1>4, AssemblyFields DEF w

\* A word that the decoder accepts has the operands of an instruction that can be
\* written, and is its encoding.
LEMMA AcceptedEncodes ==
  ASSUME NEW w \in WordBits, Kind(w) \notin {"UNKNOWN", "FENCE"}
  PROVE  Operands(Decode(w)) \in Assembly /\ Encode(Operands(Decode(w))) = w
<1> DEFINE asm == Operands(Decode(w))
           k == Kind(w)
           c == Codes[k]
           v == Immediate(w)
           none == {"ECALL", "EBREAK"}
<1>1. k \in DOMAIN Codes /\ Matches(w, k) /\ Coded(c)  BY KindMatches, CodesTyped
<1>2. /\ Rd(w) \in Register /\ Rs1(w) \in Register /\ Rs2(w) \in Register
      /\ {} \in Register /\ {} \in WordBits
  BY FieldsTyped DEF Register, WordBits
<1>3. asm = [kind |-> k,
             rd |-> IF k \in SKinds \cup BKinds \cup none THEN {} ELSE Rd(w),
             rs1 |-> IF k \in {"LUI", "AUIPC", "JAL", "ECALL", "EBREAK"} THEN {} ELSE Rs1(w),
             rs2 |-> IF k \in RKinds \cup SKinds \cup BKinds THEN Rs2(w) ELSE {},
             immediate |-> v]
  BY OperandsOf
<1> SUFFICES asm \in Assembly /\ Encode(asm) = w
  OBVIOUS
<1> HIDE DEF asm, k
<1>4. /\ asm.kind = k
      /\ asm.rd = IF k \in SKinds \cup BKinds \cup none THEN {} ELSE Rd(w)
      /\ asm.rs1 = IF k \in {"LUI", "AUIPC", "JAL", "ECALL", "EBREAK"} THEN {} ELSE Rs1(w)
      /\ asm.rs2 = IF k \in RKinds \cup SKinds \cup BKinds THEN Rs2(w) ELSE {}
      /\ asm.immediate = v
  BY <1>3
<1>5. /\ asm.rd \in Register /\ asm.rs1 \in Register /\ asm.rs2 \in Register
  BY <1>2, <1>4
<1>6. /\ c.opcode \in SUBSET (0 .. 6) /\ c.funct7 \in SUBSET (0 .. 6) /\ c.funct3 \in 0 .. 7
  BY <1>1 DEF Coded
<1>7. Piece(w, 0, c.opcode, 0, 7) /\ Piece(w, 7, Rd(w), 0, 5) /\ Piece(w, 15, Rs1(w), 0, 5)
      /\ Piece(w, 20, Rs2(w), 0, 5)
  BY <1>1, <1>2, <1>6, Fields DEF Matches
<1>8. k \notin {"LUI", "AUIPC", "JAL"} => Piece(w, 12, Third(c), 0, 3)
  BY <1>1, <1>6, Funct3Field DEF Matches, Third
\* What remains to be shown of each format.
<1> DEFINE Suits == /\ v \in WordBits
                    /\ k \in RKinds \cup none => v = {}
                    /\ k \in ShiftKinds => v \in Register
                    /\ k \in IKinds \cup SKinds => v \in Immediates(0, 12)
                    /\ k \in BKinds => v \in Immediates(1, 13)
                    /\ k \in {"LUI", "AUIPC"} => v \subseteq 12 .. 31
                    /\ k = "JAL" => v \in Immediates(1, 21)
<1>9. ASSUME Suits PROVE asm \in Assembly
  <2>1. asm \in [kind : DOMAIN Codes, rd : Register, rs1 : Register, rs2 : Register,
                 immediate : WordBits]
    BY <1>1, <1>3, <1>4, <1>5, <1>9
  <2>2. /\ k \in SKinds \cup BKinds \cup none => asm.rd = {}
        /\ k \in {"LUI", "AUIPC", "JAL", "ECALL", "EBREAK"} => asm.rs1 = {}
        /\ k \notin RKinds \cup SKinds \cup BKinds => asm.rs2 = {}
    BY <1>4
  <2> QED  BY <1>4, <1>9, <2>1, <2>2 DEF Assembly
<1>10. CASE k \in RKinds
  <2>1. v = {}  BY <1>1, <1>10, ImmediateOfKind
  <2>2. Suits  BY <1>2, <1>10, <2>1, KindsApart
  <2>3. asm.rd = Rd(w) /\ asm.rs1 = Rs1(w) /\ asm.rs2 = Rs2(w)  BY <1>4, <1>10, KindsApart
  <2>4. Encode(asm) = EncodeR(c, Rd(w), Rs1(w), Rs2(w))
    BY <1>1, <1>4, <1>10, <2>3, EncoderOfKind
  <2>5. Encode(asm) \in WordBits
        /\ Cut(Encode(asm), c.opcode, Rd(w), Third(c), Rs1(w), Rs2(w), c.funct7)
    BY <1>1, <1>2, <2>4, EncodedR
  <2>6. Piece(w, 25, c.funct7, 0, 7)
    <3>1. Funct7(w) = c.funct7  BY <1>1, <1>10 DEF Matches
    <3> QED  BY <1>2, <1>6, <3>1, Fields
  <2>7. Cut(w, c.opcode, Rd(w), Third(c), Rs1(w), Rs2(w), c.funct7)
    BY <1>7, <1>8, <1>10, <2>6, KindsApart DEF Cut
  <2>8. Encode(asm) = w  BY <2>5, <2>7, CutOnce
  <2> QED  BY <1>9, <2>2, <2>8
<1>11. CASE k \in ShiftKinds
  <2>1. v = Rs2(w)  BY <1>1, <1>11, ImmediateOfKind
  <2>2. Rs2(w) \in WordBits  BY DEF Rs2, ShiftedRight, WordBits
  <2>3. Suits  BY <1>2, <1>11, <2>1, <2>2, KindsApart
  <2>4. asm.rd = Rd(w) /\ asm.rs1 = Rs1(w)  BY <1>4, <1>11, KindsApart
  <2>5. Encode(asm) = EncodeR(c, Rd(w), Rs1(w), Rs2(w))
    BY <1>1, <1>4, <1>11, <2>1, <2>4, EncoderOfKind
  <2>6. Encode(asm) \in WordBits
        /\ Cut(Encode(asm), c.opcode, Rd(w), Third(c), Rs1(w), Rs2(w), c.funct7)
    BY <1>1, <1>2, <2>5, EncodedR
  <2>7. Piece(w, 25, c.funct7, 0, 7)
    <3>1. Funct7(w) = c.funct7  BY <1>1, <1>11 DEF Matches
    <3> QED  BY <1>2, <1>6, <3>1, Fields
  <2>8. Cut(w, c.opcode, Rd(w), Third(c), Rs1(w), Rs2(w), c.funct7)
    BY <1>7, <1>8, <1>11, <2>7, KindsApart DEF Cut
  <2>9. Encode(asm) = w  BY <2>6, <2>8, CutOnce
  <2> QED  BY <1>9, <2>3, <2>9
<1>12. CASE k \in IKinds
  <2>1. v = ImmediateI(w)  BY <1>1, <1>12, ImmediateOfKind
  <2>2. v \in Immediates(0, 12) /\ Piece(w, 20, v, 0, 12)  BY <2>1, DecodedI
  <2>3. v \in WordBits  BY <2>2 DEF Immediates
  <2>4. Suits  BY <1>12, <2>2, <2>3, KindsApart
  <2>5. asm.rd = Rd(w) /\ asm.rs1 = Rs1(w)  BY <1>4, <1>12, KindsApart
  <2>6. Encode(asm) = EncodeI(c, Rd(w), Rs1(w), v)
    BY <1>1, <1>4, <1>12, <2>5, EncoderOfKind
  <2>7. Encode(asm) \in WordBits
        /\ CutI(Encode(asm), c.opcode, Rd(w), Third(c), Rs1(w), v)
    BY <1>1, <1>2, <2>3, <2>6, EncodedI
  <2>8. CutI(w, c.opcode, Rd(w), Third(c), Rs1(w), v)
    BY <1>7, <1>8, <1>12, <2>2, KindsApart DEF CutI
  <2>9. Encode(asm) = w  BY <2>7, <2>8, CutOnce
  <2> QED  BY <1>9, <2>4, <2>9
<1>13. CASE k \in SKinds
  <2>1. v = ImmediateS(w)  BY <1>1, <1>13, ImmediateOfKind
  <2>2. v \in Immediates(0, 12) /\ Piece(w, 7, v, 0, 5) /\ Piece(w, 25, v, 5, 7)
    BY <2>1, DecodedS
  <2>3. v \in WordBits  BY <2>2 DEF Immediates
  <2>4. Suits  BY <1>13, <2>2, <2>3, KindsApart
  <2>5. asm.rs1 = Rs1(w) /\ asm.rs2 = Rs2(w)  BY <1>4, <1>13, KindsApart
  <2>6. Encode(asm) = EncodeS(c, Rs1(w), Rs2(w), v)
    BY <1>1, <1>4, <1>13, <2>5, EncoderOfKind
  <2>7. Encode(asm) \in WordBits
        /\ CutS(Encode(asm), c.opcode, Third(c), Rs1(w), Rs2(w), v)
    BY <1>1, <1>2, <2>3, <2>6, EncodedS
  <2>8. CutS(w, c.opcode, Third(c), Rs1(w), Rs2(w), v)
    BY <1>7, <1>8, <1>13, <2>2, KindsApart DEF CutS
  <2>9. Encode(asm) = w  BY <2>7, <2>8, CutOnce
  <2> QED  BY <1>9, <2>4, <2>9
<1>14. CASE k \in BKinds
  <2>1. v = ImmediateB(w)  BY <1>1, <1>14, ImmediateOfKind
  <2>2. /\ v \in Immediates(1, 13) /\ Piece(w, 7, v, 11, 1) /\ Piece(w, 8, v, 1, 4)
        /\ Piece(w, 25, v, 5, 6) /\ Piece(w, 31, v, 12, 1)
    BY <2>1, DecodedB
  <2>3. v \in WordBits  BY <2>2 DEF Immediates
  <2>4. Suits  BY <1>14, <2>2, <2>3, KindsApart
  <2>5. asm.rs1 = Rs1(w) /\ asm.rs2 = Rs2(w)  BY <1>4, <1>14, KindsApart
  <2>6. Encode(asm) = EncodeB(c, Rs1(w), Rs2(w), v)
    BY <1>1, <1>4, <1>14, <2>5, EncoderOfKind
  <2>7. Encode(asm) \in WordBits
        /\ CutB(Encode(asm), c.opcode, Third(c), Rs1(w), Rs2(w), v)
    BY <1>1, <1>2, <2>3, <2>6, EncodedB
  <2>8. CutB(w, c.opcode, Third(c), Rs1(w), Rs2(w), v)
    BY <1>7, <1>8, <1>14, <2>2, KindsApart DEF CutB
  <2>9. Encode(asm) = w  BY <2>7, <2>8, CutOnce
  <2> QED  BY <1>9, <2>4, <2>9
<1>15. CASE k \in {"LUI", "AUIPC"}
  <2>1. v = ImmediateU(w)  BY <1>1, <1>15, ImmediateOfKind
  <2>2. v \in SUBSET (12 .. 31) /\ \A j \in 12 .. 31 : j \in v <=> j \in w
    BY <2>1 DEF ImmediateU
  <2>3. v \in WordBits /\ Piece(w, 12, v, 12, 20)
    <3>1. \A j \in 12 .. 31 : j \in Positions  BY DEF Positions
    <3>2. \A j \in 12 .. 12 + 20 - 1 : j \in 12 .. 31 /\ j - 12 + 12 = j  OBVIOUS
    <3> QED  BY <2>2, <3>1, <3>2 DEF WordBits, Piece
  <2>4. Suits  BY <1>15, <2>2, <2>3, KindsApart
  <2>5. asm.rd = Rd(w)  BY <1>4, <1>15, KindsApart
  <2>6. Encode(asm) = EncodeU(c, Rd(w), v)  BY <1>1, <1>4, <1>15, <2>5, EncoderOfKind
  <2>7. Encode(asm) \in WordBits /\ CutU(Encode(asm), c.opcode, Rd(w), v)
    BY <1>1, <1>2, <2>2, <2>6, EncodedU
  <2>8. CutU(w, c.opcode, Rd(w), v)  BY <1>7, <2>3 DEF CutU
  <2>9. Encode(asm) = w  BY <2>7, <2>8, CutOnce
  <2> QED  BY <1>9, <2>4, <2>9
<1>16. CASE k = "JAL"
  <2>1. v = ImmediateJ(w)  BY <1>1, <1>16, ImmediateOfKind
  <2>2. /\ v \in Immediates(1, 21) /\ Piece(w, 12, v, 12, 8) /\ Piece(w, 20, v, 11, 1)
        /\ Piece(w, 21, v, 1, 10) /\ Piece(w, 31, v, 20, 1)
    BY <2>1, DecodedJ
  <2>3. v \in WordBits  BY <2>2 DEF Immediates
  <2>4. Suits  BY <1>16, <2>2, <2>3, KindsApart
  <2>5. asm.rd = Rd(w)  BY <1>4, <1>16, KindsApart
  <2>6. Encode(asm) = EncodeJ(c, Rd(w), v)  BY <1>1, <1>4, <1>16, <2>5, EncoderOfKind
  <2>7. Encode(asm) \in WordBits /\ CutJ(Encode(asm), c.opcode, Rd(w), v)
    BY <1>1, <1>2, <2>3, <2>6, EncodedJ
  <2>8. CutJ(w, c.opcode, Rd(w), v)  BY <1>7, <2>2 DEF CutJ
  <2>9. Encode(asm) = w  BY <2>7, <2>8, CutOnce
  <2> QED  BY <1>9, <2>4, <2>9
<1>17. CASE k \in none
  <2>1. v = {}  BY <1>1, <1>17, ImmediateOfKind
  <2>2. Suits  BY <1>2, <1>17, <2>1, KindsApart
  <2>3. w = IF k = "ECALL" THEN SYSTEM ELSE SYSTEM \cup {20}  BY <1>1, <1>17 DEF Matches
  <2>4. c = Code(SYSTEM, 0, BASE)  BY <1>17, CodesAre
  <2>5. Encode(asm) = IF k = "ECALL" THEN SYSTEM ELSE {20} \cup SYSTEM
    BY <1>1, <1>4, <1>17, <2>4, EncoderOfKind DEF Code
  <2>6. {20} \cup SYSTEM = SYSTEM \cup {20}  OBVIOUS
  <2>7. Encode(asm) = w  BY <2>3, <2>5, <2>6
  <2> QED  BY <1>9, <2>2, <2>7
<1>18. \/ k \in RKinds \/ k \in ShiftKinds \/ k \in IKinds \/ k \in SKinds \/ k \in BKinds
       \/ k \in {"LUI", "AUIPC"} \/ k = "JAL" \/ k \in none
  BY <1>1, KindIsOne
<1> QED
  BY <1>10, <1>11, <1>12, <1>13, <1>14, <1>15, <1>16, <1>17, <1>18

\* Samples stay what they are, and words words.
LEMMA WordsStayWords == EncodingSpec => [](sample \in Samples /\ word \in WordBits)
<1> DEFINE Inv == sample \in Samples /\ word \in WordBits
<1>1. Samples \subseteq Assembly  BY EncodingAssumption
<1>2. \A asm \in Samples : Encode(asm) \in WordBits  BY <1>1, EncodedDecodes
<1>3. EncodingInit => Inv  BY <1>2 DEF EncodingInit
<1>4. Inv /\ [EncodingNext]_<<sample, word>> => Inv'
  <2> SUFFICES ASSUME Inv, [EncodingNext]_<<sample, word>> PROVE Inv'
    OBVIOUS
  <2>1. ASSUME NEW bit \in Positions, Flip(bit) PROVE Inv'
    BY <2>1 DEF Flip, WordBits
  <2>2. CASE Restore  BY <1>2, <2>2 DEF Restore
  <2>3. CASE UNCHANGED <<sample, word>>  BY <2>3
  <2> QED  BY <2>1, <2>2, <2>3 DEF EncodingNext
<1> QED  BY <1>3, <1>4, PTL DEF EncodingSpec

\* The decoder inverts the encoder of the tests for every instruction that can be
\* written, and accepts no word but its encodings, for all words of 32 bits
\* (instruction_decode against encode_r, encode_i, encode_s, encode_b, encode_j).
THEOREM DecoderIsInverse == EncodingSpec => []DecoderInvertsEncoder
<1> DEFINE Inv == sample \in Samples /\ word \in WordBits
<1>1. Samples \subseteq Assembly  BY EncodingAssumption
<1>2. Inv => DecoderInvertsEncoder
  <2> SUFFICES ASSUME Inv PROVE DecoderInvertsEncoder
    OBVIOUS
  <2>1. EncodedIsDecoded
    BY <1>1, EncodedDecodes DEF EncodedIsDecoded
  <2>2. AcceptedIsEncoded
    <3>1. Operands(Decode(word)).kind = Kind(word)  BY DEF Operands, Instruction, Decode
    <3> QED  BY <3>1, AcceptedEncodes DEF AcceptedIsEncoded
  <2> QED  BY <2>1, <2>2 DEF DecoderInvertsEncoder
<1> QED  BY <1>2, WordsStayWords, PTL

LEMMA ImmediateTyped ==
  ASSUME NEW w \in WordBits
  PROVE  Immediate(w) \in WordBits
<1>1. \A v \in WordBits, n \in Nat : SignExtend(v, n) \in WordBits
  BY DEF SignExtend, WordBits, Positions
<1>2. \A v, n : ShiftedRight(v, n) \in WordBits /\ ShiftedLeft(v, n) \in WordBits
  BY DEF ShiftedRight, ShiftedLeft, WordBits
<1>3. \A v, u \in WordBits : v \cup u \in WordBits  BY DEF WordBits
<1>4. \A v \in WordBits : \A u : v \cap u \in WordBits  BY DEF WordBits
<1>5. Rs2(w) \in WordBits  BY <1>2, <1>4 DEF Rs2
<1>6. ImmediateI(w) \in WordBits  BY <1>1, <1>2 DEF ImmediateI
<1>7. ImmediateS(w) \in WordBits
  <2>1. (ShiftedRight(w, 20) \cap 5 .. 11) \cup (ShiftedRight(w, 7) \cap 0 .. 4) \in WordBits
    BY <1>2, <1>3, <1>4
  <2> QED  BY <1>1, <2>1 DEF ImmediateS
<1>8. ImmediateB(w) \in WordBits
  <2> DEFINE low == ShiftedLeft(ShiftedRight(w, 31), 12) \cup (ShiftedLeft(w, 4) \cap {11})
                    \cup (ShiftedRight(w, 20) \cap 5 .. 10) \cup (ShiftedRight(w, 7) \cap 1 .. 4)
  <2>1. low \in WordBits  BY <1>2, <1>3, <1>4
  <2>2. ImmediateB(w) = SignExtend(low, 13)  BY DEF ImmediateB
  <2> HIDE DEF low
  <2> QED  BY <1>1, <2>1, <2>2
<1>9. ImmediateU(w) \in WordBits  BY <1>4 DEF ImmediateU
<1>10. ImmediateJ(w) \in WordBits
  <2> DEFINE low == ShiftedLeft(ShiftedRight(w, 31), 20) \cup (w \cap 12 .. 19)
                    \cup (ShiftedRight(w, 9) \cap {11}) \cup (ShiftedRight(w, 20) \cap 1 .. 10)
  <2>1. low \in WordBits  BY <1>2, <1>3, <1>4
  <2>2. ImmediateJ(w) = SignExtend(low, 21)  BY DEF ImmediateJ
  <2> HIDE DEF low
  <2> QED  BY <1>1, <2>1, <2>2
<1>11. {} \in WordBits  BY DEF WordBits
<1> QED  BY <1>5, <1>6, <1>7, <1>8, <1>9, <1>10, <1>11 DEF Immediate

\* Every word of 32 bits, legal or not, decodes to an instruction: a kind of the
\* table, registers of the register file, an immediate that is a word and, for a
\* shift, below the width (instruction_decode); what the CPU assumes of it
\* (DecodeAssumption) and AluYieldsWords of its shift immediates.
THEOREM DecodeYieldsInstructions ==
  \A w \in WordBits :
    LET d == Decode(w)
    IN /\ d.kind \in DOMAIN Codes \cup {"UNKNOWN", "FENCE"}
       /\ d.rd \in Register /\ d.rs1 \in Register /\ d.rs2 \in Register
       /\ d.immediate \in WordBits
       /\ d.kind \in ShiftKinds => d.immediate \in Register
<1> SUFFICES ASSUME NEW w \in WordBits
             PROVE  /\ Kind(w) \in DOMAIN Codes \cup {"UNKNOWN", "FENCE"}
                    /\ Rd(w) \in Register /\ Rs1(w) \in Register /\ Rs2(w) \in Register
                    /\ Immediate(w) \in WordBits
                    /\ Kind(w) \in ShiftKinds => Immediate(w) \in Register
  BY DEF Decode
<1>1. Rd(w) \in Register /\ Rs1(w) \in Register /\ Rs2(w) \in Register
  BY FieldsTyped DEF Register
<1>2. Kind(w) \in DOMAIN Codes \cup {"UNKNOWN", "FENCE"}  BY KindMatches
<1>3. Kind(w) \in ShiftKinds => Immediate(w) \in Register
  BY <1>1, KindMatches, KindsApart, ImmediateOfKind
<1> QED  BY <1>1, <1>2, <1>3, ImmediateTyped
-----------------------------------------------------------------------------
(* Numbers and their bits, for widths up to the 32 bits of a word.           *)

LEMMA Induction ==
  ASSUME NEW S, 0 \in S, \A n \in Nat : n \in S => n + 1 \in S
  PROVE  Nat \subseteq S
<1> DEFINE T == Nat \ S
           R == {ss \in Nat \X Nat : ss[1] < ss[2]}
<1> SUFFICES ASSUME T # {} PROVE FALSE
  OBVIOUS
<1>1. IsWellFoundedOn(R, Nat)
  <2>1. R = OpToRel(<, Nat)  BY DEF OpToRel
  <2> QED  BY <2>1, NatLessThanWellFounded
<1>2. PICK x \in T : \A y \in T : ~(<<y, x>> \in R)
  <2> HIDE DEF R
  <2> QED  BY <1>1, WFMin
<1>3. x # 0 /\ x - 1 \in T  BY <1>2
<1>4. <<x - 1, x>> \in R  BY <1>3
<1> QED  BY <1>2, <1>3, <1>4

\* Up to a width: from each width below 32 to the next.
LEMMA WidthInduction ==
  ASSUME NEW S, 0 \in S, \A n \in 0 .. 31 : n \in S => n + 1 \in S
  PROVE  \A n \in 0 .. 32 : n \in S
<1> DEFINE A == S \cup {n \in Nat : n > 32}
<1>1. 0 \in A  OBVIOUS
<1>2. ASSUME NEW n \in Nat, n \in A PROVE n + 1 \in A
  <2>1. CASE n \in 0 .. 31  BY <1>2, <2>1
  <2>2. CASE n > 31  BY <2>2
  <2> QED  BY <2>1, <2>2
<1>3. Nat \subseteq A
  <2> HIDE DEF A
  <2> QED  BY <1>1, <1>2, Induction
<1> QED  BY <1>3

LEMMA Doubles ==
  ASSUME NEW k \in 0 .. 31
  PROVE  2 ^ (k + 1) = 2 * 2 ^ k /\ 2 ^ k \in Nat \ {0}
<1>0. CASE k = 0  BY <1>0
<1>1. CASE k = 1  BY <1>1
<1>2. CASE k = 2  BY <1>2
<1>3. CASE k = 3  BY <1>3
<1>4. CASE k = 4  BY <1>4
<1>5. CASE k = 5  BY <1>5
<1>6. CASE k = 6  BY <1>6
<1>7. CASE k = 7  BY <1>7
<1>8. CASE k = 8  BY <1>8
<1>9. CASE k = 9  BY <1>9
<1>10. CASE k = 10  BY <1>10
<1>11. CASE k = 11  BY <1>11
<1>12. CASE k = 12  BY <1>12
<1>13. CASE k = 13  BY <1>13
<1>14. CASE k = 14  BY <1>14
<1>15. CASE k = 15  BY <1>15
<1>16. CASE k = 16  BY <1>16
<1>17. CASE k = 17  BY <1>17
<1>18. CASE k = 18  BY <1>18
<1>19. CASE k = 19  BY <1>19
<1>20. CASE k = 20  BY <1>20
<1>21. CASE k = 21  BY <1>21
<1>22. CASE k = 22  BY <1>22
<1>23. CASE k = 23  BY <1>23
<1>24. CASE k = 24  BY <1>24
<1>25. CASE k = 25  BY <1>25
<1>26. CASE k = 26  BY <1>26
<1>27. CASE k = 27  BY <1>27
<1>28. CASE k = 28  BY <1>28
<1>29. CASE k = 29  BY <1>29
<1>30. CASE k = 30  BY <1>30
<1>31. CASE k = 31  BY <1>31
<1> QED
  BY <1>0, <1>1, <1>2, <1>3, <1>4, <1>5, <1>6, <1>7, <1>8, <1>9, <1>10, <1>11, <1>12, <1>13,
     <1>14, <1>15, <1>16, <1>17, <1>18, <1>19, <1>20, <1>21, <1>22, <1>23, <1>24, <1>25, <1>26,
     <1>27, <1>28, <1>29, <1>30, <1>31

LEMMA Powers ==
  /\ \A k \in 0 .. 32 : 2 ^ k \in Nat /\ 2 ^ k > 0
  /\ \A k \in 0 .. 31 : 2 ^ (k + 1) = 2 * 2 ^ k
  /\ 2 ^ 0 = 1 /\ 2 ^ 1 = 2
<1>1. 2 ^ 0 = 1 /\ 2 ^ 1 = 2  OBVIOUS
<1>2. 2 ^ 32 \in Nat /\ 2 ^ 32 > 0  OBVIOUS
<1>3. \A k \in 0 .. 32 : k = 32 \/ k \in 0 .. 31  OBVIOUS
<1> QED  BY <1>1, <1>2, <1>3, Doubles

LEMMA PowerSum ==
  ASSUME NEW a \in 0 .. 32, NEW b \in 0 .. 32, a + b <= 32
  PROVE  2 ^ (a + b) = 2 ^ a * 2 ^ b
<1> DEFINE S == {n \in Nat : a + n <= 32 => 2 ^ (a + n) = 2 ^ a * 2 ^ n}
<1>1. 0 \in S  BY Powers
<1>2. ASSUME NEW n \in 0 .. 31, n \in S PROVE n + 1 \in S
  <2> SUFFICES ASSUME a + (n + 1) <= 32 PROVE 2 ^ (a + (n + 1)) = 2 ^ a * 2 ^ (n + 1)
    OBVIOUS
  <2>1. 2 ^ (a + n) = 2 ^ a * 2 ^ n  BY <1>2
  <2>2. a + (n + 1) = (a + n) + 1 /\ a + n \in 0 .. 31  OBVIOUS
  <2>3. 2 ^ (a + (n + 1)) = 2 * 2 ^ (a + n)  BY <2>2, Powers
  <2>4. n \in 0 .. 31 /\ n \in 0 .. 32 /\ a \in 0 .. 32  OBVIOUS
  <2>5. 2 ^ (n + 1) = 2 * 2 ^ n  BY <2>4, Powers
  <2>6. 2 ^ n \in Nat /\ 2 ^ a \in Nat  BY <2>4, Powers
  <2>7. \A x, y \in Nat : 2 * (x * y) = x * (2 * y)  OBVIOUS
  <2> QED  BY <2>1, <2>3, <2>5, <2>6, <2>7
<1>3. \A n \in 0 .. 32 : n \in S
  <2> HIDE DEF S
  <2> QED  BY <1>1, <1>2, WidthInduction
<1> QED  BY <1>3

\* Quotient and remainder are unique.
LEMMA Division ==
  ASSUME NEW d \in Nat, d > 0, NEW q \in Int, NEW r \in 0 .. d - 1
  PROVE  (q * d + r) \div d = q /\ (q * d + r) % d = r
OBVIOUS

LEMMA Divided ==
  ASSUME NEW x \in Int, NEW d \in Nat, d > 0
  PROVE  x = (x \div d) * d + (x % d) /\ x \div d \in Int /\ x % d \in 0 .. d - 1
OBVIOUS

\* A sum over 0 .. n - 1 as the recursive function that NumberOf is defined by.
IsSum(f, w, n) ==
  f = [k \in 0 .. n |-> IF k = 0 THEN 0 ELSE f[k - 1] + w[k - 1]]

LEMMA SumExists ==
  ASSUME NEW w, \A k \in 0 .. 31 : w[k] \in Nat
  PROVE  \A n \in 0 .. 32 : \E f \in [0 .. n -> Nat] : IsSum(f, w, n)
<1> DEFINE S == {n \in Nat : n <= 32 => \E f \in [0 .. n -> Nat] : IsSum(f, w, n)}
<1>1. 0 \in S
  <2> DEFINE f == [k \in 0 .. 0 |-> 0]
  <2>1. f \in [0 .. 0 -> Nat] /\ f[0] = 0 /\ \A k \in 0 .. 0 : k = 0  OBVIOUS
  <2>2. IsSum(f, w, 0)  BY <2>1 DEF IsSum
  <2> QED  BY <2>1, <2>2
<1>2. ASSUME NEW n \in 0 .. 31, n \in S PROVE n + 1 \in S
  <2>1. n <= 32 /\ n \in 0 .. 32 /\ n + 1 \in Nat /\ n # n + 1  OBVIOUS
  <2>2. PICK f : f \in [0 .. n -> Nat] /\ IsSum(f, w, n)  BY <1>2, <2>1, Zenon
  <2> DEFINE g == [k \in 0 .. n + 1 |-> IF k = n + 1 THEN f[n] + w[n] ELSE f[k]]
  <2> HIDE DEF S
  <2>3. \A k \in 0 .. n + 1 : k = n + 1 \/ (k \in 0 .. n /\ k # n + 1)  OBVIOUS
  <2>4. f[n] + w[n] \in Nat
    <3>1. n \in 0 .. n /\ n \in 0 .. 31  OBVIOUS
    <3>2. w[n] \in Nat  BY <3>1
    <3>3. f \in [0 .. n -> Nat]  BY <2>2
    <3>4. f[n] \in Nat  BY <3>1, <3>3, Zenon
    <3> QED  BY <3>2, <3>4
  <2>5. g \in [0 .. n + 1 -> Nat]  BY <2>2, <2>3, <2>4
  <2>6. \A k \in 0 .. n : f[k] = IF k = 0 THEN 0 ELSE f[k - 1] + w[k - 1]
    BY <2>2 DEF IsSum
  <2>7. \A k \in 0 .. n : g[k] = f[k]  BY <2>1
  <2>8. g[n + 1] = f[n] + w[n]
    <3>1. n + 1 \in 0 .. n + 1  OBVIOUS
    <3> QED  BY <3>1
  <2> HIDE DEF g
  <2>9. ASSUME NEW k \in 0 .. n + 1
        PROVE  g[k] = IF k = 0 THEN 0 ELSE g[k - 1] + w[k - 1]
    <3>1. CASE k = n + 1
      <4>1. k - 1 = n /\ n \in 0 .. n /\ k # 0  BY <3>1
      <4> QED  BY <2>7, <2>8, <3>1, <4>1
    <3>2. CASE k \in 0 .. n
      <4>1. k # 0 => k - 1 \in 0 .. n  BY <3>2
      <4> QED  BY <2>6, <2>7, <3>2, <4>1
    <3> QED  BY <2>3, <3>1, <3>2
  <2>10. IsSum(g, w, n + 1)  BY <2>5, <2>9 DEF IsSum
  <2>11. n + 1 <= 32 => \E h \in [0 .. n + 1 -> Nat] : IsSum(h, w, n + 1)
    BY <2>5, <2>10
  <2> QED  BY <2>1, <2>11, Zenon DEF S
<1>3. \A n \in 0 .. 32 : n \in S
  <2> HIDE DEF S
  <2> QED  BY <1>1, <1>2, WidthInduction
<1>4. \A n \in 0 .. 32 : n <= 32  OBVIOUS
<1> QED  BY <1>3, <1>4, Zenon

LEMMA SumsAgree ==
  \A w, m, n, f, g :
    m \in 0 .. 32 /\ n \in 0 .. 32 /\ IsSum(f, w, m) /\ IsSum(g, w, n)
      => \A k \in 0 .. 32 : k <= m /\ k <= n => f[k] = g[k]
<1> SUFFICES ASSUME NEW w, NEW m, NEW n, NEW f, NEW g, m \in 0 .. 32, n \in 0 .. 32,
                    IsSum(f, w, m), IsSum(g, w, n), NEW k \in 0 .. 32, k <= m, k <= n
             PROVE  f[k] = g[k]
  OBVIOUS
<1> DEFINE S == {j \in Nat : j <= m /\ j <= n => f[j] = g[j]}
<1>1. 0 \in S  BY DEF IsSum
<1>2. ASSUME NEW j \in 0 .. 31, j \in S PROVE j + 1 \in S
  <2> SUFFICES ASSUME j + 1 <= m, j + 1 <= n PROVE f[j + 1] = g[j + 1]
    OBVIOUS
  <2>1. f[j] = g[j]  BY <1>2
  <2>2. j + 1 \in 0 .. m /\ j + 1 \in 0 .. n /\ j + 1 # 0 /\ (j + 1) - 1 = j  OBVIOUS
  <2>3. f[j + 1] = f[j] + w[j]  BY <2>2 DEF IsSum
  <2>4. g[j + 1] = g[j] + w[j]  BY <2>2 DEF IsSum
  <2> QED  BY <2>1, <2>3, <2>4
<1>3. \A j \in 0 .. 32 : j \in S
  <2> HIDE DEF S
  <2> QED  BY <1>1, <1>2, WidthInduction
<1> QED  BY <1>3

\* What the definition of NumberOf computes.
LEMMA NumberStep ==
  ASSUME NEW bits
  PROVE  /\ NumberOf(bits, 0) = 0
         /\ \A n \in 0 .. 31 : NumberOf(bits, n + 1) = NumberOf(bits, n) + Weight(bits, n)
         /\ \A n \in 0 .. 32 : NumberOf(bits, n) \in Nat
<1> DEFINE w == [k \in 0 .. 31 |-> Weight(bits, k)]
<1>1. \A k \in 0 .. 31 : w[k] \in Nat
  <2>1. \A k \in 0 .. 31 : 2 ^ k \in Nat  BY Doubles
  <2> QED  BY <2>1 DEF Weight
<1>2. ASSUME NEW n \in 0 .. 32
      PROVE  \E f \in [0 .. n -> Nat] : IsSum(f, w, n) /\ NumberOf(bits, n) = f[n]
  <2> DEFINE Eq(f) == f = [k \in 0 .. n |-> IF k = 0 THEN 0 ELSE f[k - 1] + Weight(bits, k - 1)]
             below == CHOOSE f : Eq(f)
  <2>1. ASSUME NEW f PROVE Eq(f) <=> IsSum(f, w, n)
    <3>1. \A k \in 0 .. n : k # 0 => k - 1 \in 0 .. 31  OBVIOUS
    <3>2. \A k \in 0 .. n : k # 0 => w[k - 1] = Weight(bits, k - 1)  BY <3>1
    <3> HIDE DEF w
    <3>3. \A k \in 0 .. n : (IF k = 0 THEN 0 ELSE f[k - 1] + Weight(bits, k - 1))
                             = (IF k = 0 THEN 0 ELSE f[k - 1] + w[k - 1])
      BY <3>2
    <3>4. [k \in 0 .. n |-> IF k = 0 THEN 0 ELSE f[k - 1] + Weight(bits, k - 1)]
          = [k \in 0 .. n |-> IF k = 0 THEN 0 ELSE f[k - 1] + w[k - 1]]
      BY <3>3
    <3> QED  BY <3>4 DEF IsSum
  <2>2. PICK g : g \in [0 .. n -> Nat] /\ IsSum(g, w, n)  BY <1>1, SumExists
  <2>3. Eq(g)  BY <2>1, <2>2
  <2>4. Eq(below)
    <3> HIDE DEF Eq
    <3> QED  BY <2>3, Zenon
  <2>5. NumberOf(bits, n) = below[n]  BY DEF NumberOf
  <2> HIDE DEF Eq, w, below
  <2>6. IsSum(below, w, n)  BY <2>1, <2>4
  <2>7. n <= n /\ IsSum(g, w, n)  BY <2>2
  <2>8. below[n] = g[n]  BY <2>6, <2>7, SumsAgree
  <2> QED  BY <2>2, <2>5, <2>8, Zenon
<1>3. NumberOf(bits, 0) = 0  BY <1>2 DEF IsSum
<1>4. \A n \in 0 .. 32 : NumberOf(bits, n) \in Nat
  <2> SUFFICES ASSUME NEW n \in 0 .. 32 PROVE NumberOf(bits, n) \in Nat
    OBVIOUS
  <2> HIDE DEF w
  <2>1. PICK f : f \in [0 .. n -> Nat] /\ NumberOf(bits, n) = f[n]  BY <1>2
  <2>2. n \in 0 .. n  OBVIOUS
  <2> QED  BY <2>1, <2>2
<1>5. ASSUME NEW n \in 0 .. 31
      PROVE  NumberOf(bits, n + 1) = NumberOf(bits, n) + Weight(bits, n)
  <2>1. w[n] = Weight(bits, n)  OBVIOUS
  <2> HIDE DEF w
  <2>2. n \in 0 .. 32 /\ n + 1 \in 0 .. 32  OBVIOUS
  <2>3. PICK f : f \in [0 .. n -> Nat] /\ IsSum(f, w, n) /\ NumberOf(bits, n) = f[n]
    BY <1>2, <2>2
  <2>4. PICK g : /\ g \in [0 .. n + 1 -> Nat] /\ IsSum(g, w, n + 1)
                 /\ NumberOf(bits, n + 1) = g[n + 1]
    BY <1>2, <2>2
  <2>5. f[n] = g[n]
    <3>1. n <= n /\ n <= n + 1  OBVIOUS
    <3>2. IsSum(f, w, n) /\ IsSum(g, w, n + 1)  BY <2>3, <2>4
    <3> QED  BY <2>2, <3>1, <3>2, SumsAgree
  <2>6. g[n + 1] = g[n] + w[n]  BY <2>4 DEF IsSum
  <2> QED  BY <2>1, <2>3, <2>4, <2>5, <2>6
<1> QED  BY <1>3, <1>4, <1>5

LEMMA DigitStep ==
  ASSUME NEW x \in Int, NEW n \in 0 .. 31
  PROVE  x % 2 ^ (n + 1) = (x % 2 ^ n) + (IF (x \div 2 ^ n) % 2 = 1 THEN 2 ^ n ELSE 0)
<1>1. 2 ^ n \in Nat /\ 2 ^ n > 0 /\ 2 ^ (n + 1) = 2 * 2 ^ n
  <2>1. n \in 0 .. 32  OBVIOUS
  <2> QED  BY <2>1, Powers
<1> SUFFICES ASSUME NEW d \in Nat, d > 0
             PROVE  x % (2 * d) = (x % d) + (IF (x \div d) % 2 = 1 THEN d ELSE 0)
  BY <1>1
<1> DEFINE q == x \div d
           r == x % d
           p == q \div 2
           e == q % 2
           low == IF e = 1 THEN d + r ELSE r
<1>2. x = q * d + r /\ q \in Int /\ r \in 0 .. d - 1  BY Divided
<1>3. q = p * 2 + e /\ p \in Int /\ e \in 0 .. 1
  <2> HIDE DEF q
  <2> QED  BY <1>2, Divided
<1> HIDE DEF q, r, p, e
<1>4. low \in 0 .. 2 * d - 1  BY <1>2, <1>3
<1>5. x = p * (2 * d) + low
  <2>1. CASE e = 1
    <3>1. (p * 2 + 1) * d + r = p * (2 * d) + (d + r)  BY <1>2, <1>3
    <3> QED  BY <1>2, <1>3, <2>1, <3>1
  <2>2. CASE e = 0
    <3>1. (p * 2 + 0) * d + r = p * (2 * d) + r  BY <1>2, <1>3
    <3> QED  BY <1>2, <1>3, <2>2, <3>1
  <2> QED  BY <1>3, <2>1, <2>2
<1> HIDE DEF low
<1>6. 2 * d \in Nat /\ 2 * d > 0  OBVIOUS
<1>7. x % (2 * d) = low  BY <1>3, <1>4, <1>5, <1>6, Division
<1>8. low = r + (IF e = 1 THEN d ELSE 0)  BY <1>2 DEF low
<1> QED  BY <1>7, <1>8 DEF q, r, e

LEMMA WeightIs ==
  \A bits : \A k \in 0 .. 31 :
    /\ k \in bits => Weight(bits, k) = 2 ^ k
    /\ k \notin bits => Weight(bits, k) = 0
    /\ Weight(bits, k) \in Nat
<1>1. \A k \in 0 .. 31 : 2 ^ k \in Nat  BY Doubles
<1> QED  BY <1>1 DEF Weight

\* The bits above n do not count.
LEMMA NumberSame ==
  \A a, b : \A n \in 0 .. 32 :
    (\A k \in 0 .. n - 1 : k \in a <=> k \in b) => NumberOf(a, n) = NumberOf(b, n)
<1> SUFFICES ASSUME NEW a, NEW b
             PROVE  \A n \in 0 .. 32 : (\A k \in 0 .. n - 1 : k \in a <=> k \in b)
                                         => NumberOf(a, n) = NumberOf(b, n)
  OBVIOUS
<1> DEFINE S == {n \in Nat : (\A k \in 0 .. n - 1 : k \in a <=> k \in b)
                               => NumberOf(a, n) = NumberOf(b, n)}
<1>1. 0 \in S  BY NumberStep
<1>2. ASSUME NEW n \in 0 .. 31, n \in S PROVE n + 1 \in S
  <2> SUFFICES ASSUME \A k \in 0 .. (n + 1) - 1 : k \in a <=> k \in b
               PROVE  NumberOf(a, n + 1) = NumberOf(b, n + 1)
    OBVIOUS
  <2>1. n \in a <=> n \in b  OBVIOUS
  <2>2. \A k \in 0 .. n - 1 : k \in a <=> k \in b  OBVIOUS
  <2>3. NumberOf(a, n) = NumberOf(b, n)  BY <1>2, <2>2
  <2>4. Weight(a, n) = Weight(b, n)  BY <2>1 DEF Weight
  <2> QED  BY <2>3, <2>4, NumberStep
<1>3. \A n \in 0 .. 32 : n \in S
  <2> HIDE DEF S
  <2> QED  BY <1>1, <1>2, WidthInduction
<1> QED  BY <1>3

LEMMA NumberBelow ==
  \A bits : \A n \in 0 .. 32 : NumberOf(bits, n) \in 0 .. 2 ^ n - 1
<1> SUFFICES ASSUME NEW bits PROVE \A n \in 0 .. 32 : NumberOf(bits, n) \in 0 .. 2 ^ n - 1
  OBVIOUS
<1> DEFINE S == {n \in Nat : NumberOf(bits, n) \in 0 .. 2 ^ n - 1}
<1>1. 0 \in S
  <2>1. 0 \in 0 .. 1 - 1  OBVIOUS
  <2> QED  BY <2>1, NumberStep, Powers
<1>2. ASSUME NEW n \in 0 .. 31, n \in S PROVE n + 1 \in S
  <2>1. NumberOf(bits, n) \in 0 .. 2 ^ n - 1  BY <1>2
  <2>2. 2 ^ n \in Nat /\ 2 ^ (n + 1) = 2 * 2 ^ n  BY Doubles
  <2>3. Weight(bits, n) \in {0, 2 ^ n}  BY DEF Weight
  <2>4. NumberOf(bits, n + 1) = NumberOf(bits, n) + Weight(bits, n)  BY NumberStep
  <2>5. NumberOf(bits, n + 1) \in 0 .. 2 ^ (n + 1) - 1  BY <2>1, <2>2, <2>3, <2>4
  <2> QED  BY <2>5
<1>3. \A n \in 0 .. 32 : n \in S
  <2> HIDE DEF S
  <2> QED  BY <1>1, <1>2, WidthInduction
<1> QED  BY <1>3

\* The bits of x stand for x, modulo the width.
LEMMA NumberOfBits ==
  \A x \in Int : \A n \in 0 .. 32 : NumberOf(BitsOf(x, n), n) = x % 2 ^ n
<1> SUFFICES ASSUME NEW x \in Int
             PROVE  \A n \in 0 .. 32 : NumberOf(BitsOf(x, n), n) = x % 2 ^ n
  OBVIOUS
<1> DEFINE all == BitsOf(x, 32)
           S == {n \in Nat : NumberOf(all, n) = x % 2 ^ n}
<1>1. 0 \in S
  <2>1. x % 1 = 0  OBVIOUS
  <2> QED  BY <2>1, NumberStep, Powers
<1>2. ASSUME NEW n \in 0 .. 31, n \in S PROVE n + 1 \in S
  <2>1. Weight(all, n) = IF (x \div 2 ^ n) % 2 = 1 THEN 2 ^ n ELSE 0  BY DEF Weight, BitsOf
  <2>2. NumberOf(all, n) = x % 2 ^ n  BY <1>2
  <2> HIDE DEF all
  <2>3. NumberOf(all, n + 1) = x % 2 ^ (n + 1)  BY <2>1, <2>2, NumberStep, DigitStep
  <2> QED  BY <2>3
<1>3. \A n \in 0 .. 32 : n \in S
  <2> HIDE DEF S
  <2> QED  BY <1>1, <1>2, WidthInduction
<1>4. ASSUME NEW n \in 0 .. 32 PROVE NumberOf(BitsOf(x, n), n) = NumberOf(all, n)
  <2>1. \A k \in 0 .. n - 1 : k \in BitsOf(x, n) <=> k \in all  BY DEF BitsOf
  <2> HIDE DEF all
  <2> QED  BY <2>1, NumberSame
<1> QED  BY <1>3, <1>4

\* Different bits stand for different numbers.
LEMMA NumberInjective ==
  \A a, b : \A n \in 0 .. 32 :
    NumberOf(a, n) = NumberOf(b, n) => \A k \in 0 .. n - 1 : k \in a <=> k \in b
<1> SUFFICES ASSUME NEW a, NEW b
             PROVE  \A n \in 0 .. 32 : NumberOf(a, n) = NumberOf(b, n)
                                         => \A k \in 0 .. n - 1 : k \in a <=> k \in b
  OBVIOUS
<1> DEFINE S == {n \in Nat : NumberOf(a, n) = NumberOf(b, n)
                               => \A k \in 0 .. n - 1 : k \in a <=> k \in b}
<1>1. 0 \in S  OBVIOUS
<1>2. ASSUME NEW n \in 0 .. 31, n \in S PROVE n + 1 \in S
  <2>1. NumberOf(a, n) \in 0 .. 2 ^ n - 1 /\ NumberOf(b, n) \in 0 .. 2 ^ n - 1
    <3>1. n \in 0 .. 32  OBVIOUS
    <3> QED  BY <3>1, NumberBelow
  <2>2. 2 ^ n \in Nat /\ 2 ^ n > 0
    <3>1. 2 ^ n \in Nat \ {0}  BY Doubles
    <3> QED  BY <3>1
  <2> SUFFICES ASSUME NumberOf(a, n + 1) = NumberOf(b, n + 1)
               PROVE  \A k \in 0 .. (n + 1) - 1 : k \in a <=> k \in b
    OBVIOUS
  <2>3. NumberOf(a, n) + Weight(a, n) = NumberOf(b, n) + Weight(b, n)  BY NumberStep
  <2>4. Weight(a, n) = IF n \in a THEN 2 ^ n ELSE 0  BY DEF Weight
  <2>5. Weight(b, n) = IF n \in b THEN 2 ^ n ELSE 0  BY DEF Weight
  <2>6. (n \in a <=> n \in b) /\ NumberOf(a, n) = NumberOf(b, n)
    BY <2>3, <2>1, <2>2, <2>4, <2>5
  <2>7. \A k \in 0 .. n - 1 : k \in a <=> k \in b  BY <1>2, <2>6
  <2> QED  BY <2>6, <2>7
<1>3. \A n \in 0 .. 32 : n \in S
  <2> HIDE DEF S
  <2> QED  BY <1>1, <1>2, WidthInduction
<1> QED  BY <1>3

\* Bits from m on are zero: they add nothing.
LEMMA NumberCut ==
  \A bits : \A m, n \in 0 .. 32 :
    m <= n /\ (\A k \in m .. n - 1 : k \notin bits) => NumberOf(bits, n) = NumberOf(bits, m)
<1> SUFFICES ASSUME NEW bits, NEW m \in 0 .. 32
             PROVE  \A n \in 0 .. 32 : m <= n /\ (\A k \in m .. n - 1 : k \notin bits)
                                         => NumberOf(bits, n) = NumberOf(bits, m)
  OBVIOUS
<1> DEFINE S == {n \in Nat : m <= n /\ (\A k \in m .. n - 1 : k \notin bits)
                               => NumberOf(bits, n) = NumberOf(bits, m)}
<1>1. 0 \in S
  <2>1. m <= 0 => m = 0  OBVIOUS
  <2> QED  BY <2>1
<1>2. ASSUME NEW n \in 0 .. 31, n \in S PROVE n + 1 \in S
  <2> SUFFICES ASSUME m <= n + 1, \A k \in m .. (n + 1) - 1 : k \notin bits
               PROVE  NumberOf(bits, n + 1) = NumberOf(bits, m)
    OBVIOUS
  <2>1. CASE m = n + 1  BY <2>1
  <2>2. CASE m <= n
    <3>1. n \in m .. (n + 1) - 1  BY <2>2
    <3>2. n \notin bits  BY <3>1
    <3>3. \A k \in m .. n - 1 : k \in m .. (n + 1) - 1  OBVIOUS
    <3>4. \A k \in m .. n - 1 : k \notin bits  BY <3>3
    <3>5. NumberOf(bits, n) = NumberOf(bits, m)  BY <1>2, <2>2, <3>4
    <3>6. Weight(bits, n) = 0  BY <3>2 DEF Weight
    <3>7. NumberOf(bits, n + 1) = NumberOf(bits, n) + Weight(bits, n)  BY NumberStep
    <3>8. n \in 0 .. 32  OBVIOUS
    <3>9. NumberOf(bits, n) \in Nat  BY <3>8, NumberStep
    <3> QED  BY <3>5, <3>6, <3>7, <3>9
  <2> QED  BY <2>1, <2>2
<1>3. \A n \in 0 .. 32 : n \in S
  <2> HIDE DEF S
  <2> QED  BY <1>1, <1>2, WidthInduction
<1> QED  BY <1>3

\* Each bit below n is in exactly one part.
Splits(whole, a, b, n) ==
  \A k \in 0 .. n - 1 : ~(k \in a /\ k \in b) /\ (k \in whole <=> k \in a \/ k \in b)

LEMMA NumberSum ==
  \A whole, a, b : \A n \in 0 .. 32 :
    Splits(whole, a, b, n) => NumberOf(whole, n) = NumberOf(a, n) + NumberOf(b, n)
<1> SUFFICES ASSUME NEW whole, NEW a, NEW b
             PROVE  \A n \in 0 .. 32 : Splits(whole, a, b, n)
                      => NumberOf(whole, n) = NumberOf(a, n) + NumberOf(b, n)
  OBVIOUS
<1> DEFINE S == {n \in Nat : Splits(whole, a, b, n)
                               => NumberOf(whole, n) = NumberOf(a, n) + NumberOf(b, n)}
<1>1. 0 \in S  BY NumberStep
<1>2. ASSUME NEW n \in 0 .. 31, n \in S PROVE n + 1 \in S
  <2>1. n \in 0 .. 32  OBVIOUS
  <2>2. /\ NumberOf(a, n) \in Nat /\ NumberOf(b, n) \in Nat
        /\ NumberOf(a, n + 1) = NumberOf(a, n) + Weight(a, n)
        /\ NumberOf(b, n + 1) = NumberOf(b, n) + Weight(b, n)
        /\ NumberOf(whole, n + 1) = NumberOf(whole, n) + Weight(whole, n)
    BY <2>1, NumberStep
  <2>3. 2 ^ n \in Nat  BY Doubles
  <2> SUFFICES ASSUME Splits(whole, a, b, n + 1)
               PROVE  NumberOf(whole, n + 1) = NumberOf(a, n + 1) + NumberOf(b, n + 1)
    OBVIOUS
  <2>4. Splits(whole, a, b, n)  BY DEF Splits
  <2>5. NumberOf(whole, n) = NumberOf(a, n) + NumberOf(b, n)  BY <1>2, <2>4
  <2>6. ~(n \in a /\ n \in b) /\ (n \in whole <=> n \in a \/ n \in b)  BY DEF Splits
  <2>7. /\ Weight(whole, n) = Weight(a, n) + Weight(b, n)
        /\ Weight(a, n) \in Nat /\ Weight(b, n) \in Nat
    BY <2>3, <2>6 DEF Weight
  <2> QED  BY <2>2, <2>5, <2>7
<1>3. \A n \in 0 .. 32 : n \in S
  <2> HIDE DEF S
  <2> QED  BY <1>1, <1>2, WidthInduction
<1> QED  BY <1>3

LEMMA NumberOfAll ==
  \A n \in 0 .. 32 : NumberOf(0 .. n - 1, n) = 2 ^ n - 1
<1> DEFINE S == {n \in Nat : NumberOf(0 .. 31, n) = 2 ^ n - 1}
<1>1. 0 \in S
  <2>1. 1 - 1 = 0  OBVIOUS
  <2> QED  BY <2>1, NumberStep, Powers
<1>2. ASSUME NEW n \in 0 .. 31, n \in S PROVE n + 1 \in S
  <2>1. NumberOf(0 .. 31, n + 1) = NumberOf(0 .. 31, n) + Weight(0 .. 31, n)  BY NumberStep
  <2>2. Weight(0 .. 31, n) = 2 ^ n  BY DEF Weight
  <2>3. 2 ^ n \in Nat /\ 2 ^ (n + 1) = 2 * 2 ^ n  BY Doubles
  <2>4. NumberOf(0 .. 31, n) = 2 ^ n - 1  BY <1>2
  <2>5. NumberOf(0 .. 31, n + 1) = 2 ^ (n + 1) - 1  BY <2>1, <2>2, <2>3, <2>4
  <2> QED  BY <2>5
<1>3. \A n \in 0 .. 32 : n \in S
  <2> HIDE DEF S
  <2> QED  BY <1>1, <1>2, WidthInduction
<1>4. ASSUME NEW n \in 0 .. 32 PROVE NumberOf(0 .. n - 1, n) = NumberOf(0 .. 31, n)
  <2>1. \A k \in 0 .. n - 1 : k \in 0 .. n - 1 <=> k \in 0 .. 31  OBVIOUS
  <2> QED  BY <2>1, NumberSame
<1> QED  BY <1>3, <1>4

LEMMA NumberOfNone ==
  \A bits : \A n \in 0 .. 32 : (\A k \in 0 .. n - 1 : k \notin bits) => NumberOf(bits, n) = 0
<1>1. \A n \in 0 .. 32 : 0 \in 0 .. 32 /\ 0 <= n  OBVIOUS
<1> QED  BY <1>1, NumberCut, NumberStep

\* The bits of the number are the bits.
LEMMA BitsOfNumber ==
  \A bits : \A n \in 0 .. 32 : \A k \in 0 .. n - 1 :
    k \in BitsOf(NumberOf(bits, n), n) <=> k \in bits
<1> SUFFICES ASSUME NEW bits, NEW n \in 0 .. 32
             PROVE  \A k \in 0 .. n - 1 : k \in BitsOf(NumberOf(bits, n), n) <=> k \in bits
  OBVIOUS
<1> DEFINE x == NumberOf(bits, n)
<1>1. x \in 0 .. 2 ^ n - 1 /\ 2 ^ n \in Nat  BY NumberBelow, Powers
<1>2. x \in Int /\ x % 2 ^ n = x
  <2>1. \A d \in Nat : \A y \in 0 .. d - 1 : y % d = y  OBVIOUS
  <2> QED  BY <1>1, <2>1
<1>3. NumberOf(BitsOf(x, n), n) = NumberOf(bits, n)
  <2> HIDE DEF x
  <2>1. NumberOf(BitsOf(x, n), n) = x  BY <1>2, NumberOfBits
  <2> QED  BY <2>1 DEF x
<1> QED  BY <1>3, NumberInjective

-----------------------------------------------------------------------------
(* The arithmetic of the ALU.                                                *)

LEMMA WidthFacts ==
  /\ XLEN \in 1 .. 32 /\ XLEN \in 0 .. 32 /\ XLEN - 1 \in 0 .. 31 /\ XLEN - 1 \in 0 .. 32
  /\ (XLEN - 1) + 1 = XLEN
  /\ SignBit \in Nat /\ SignBit > 0 /\ Modulus = 2 * SignBit /\ Modulus \in Nat /\ Modulus > 0
  /\ \E m \in 1 .. 5 : XLEN = 2 ^ m
<1>1. XLEN \in 1 .. 32  BY XLENAssumption
<1>2. /\ XLEN \in 0 .. 32 /\ XLEN - 1 \in 0 .. 31 /\ XLEN - 1 \in 0 .. 32
      /\ (XLEN - 1) + 1 = XLEN
  BY <1>1
<1>3. 2 ^ (XLEN - 1) \in Nat /\ 2 ^ (XLEN - 1) > 0  BY <1>2, Powers
<1>4. 2 ^ ((XLEN - 1) + 1) = 2 * 2 ^ (XLEN - 1)  BY <1>2, Powers
<1>5. 2 = 2 ^ 1 /\ 4 = 2 ^ 2 /\ 8 = 2 ^ 3 /\ 16 = 2 ^ 4 /\ 32 = 2 ^ 5  OBVIOUS
<1>6. \E m \in 1 .. 5 : XLEN = 2 ^ m
  <2>1. CASE XLEN = 2  BY <1>5, <2>1
  <2>2. CASE XLEN = 4  BY <1>5, <2>2
  <2>3. CASE XLEN = 8  BY <1>5, <2>3
  <2>4. CASE XLEN = 16  BY <1>5, <2>4
  <2>5. CASE XLEN = 32  BY <1>5, <2>5
  <2> QED  BY XLENAssumption, <2>1, <2>2, <2>3, <2>4, <2>5
<1>7. Modulus = 2 * SignBit  BY <1>2, <1>4 DEF SignBit, Modulus
<1>8. SignBit \in Nat /\ SignBit > 0  BY <1>3 DEF SignBit
<1>9. Modulus \in Nat /\ Modulus > 0  BY <1>7, <1>8
<1> QED  BY <1>1, <1>2, <1>6, <1>7, <1>8, <1>9

LEMMA SmallModulus ==
  \A d \in Nat : \A y \in 0 .. d - 1 : y % d = y
OBVIOUS

LEMMA WordHasBits ==
  ASSUME NEW x \in Word
  PROVE  /\ x \in Nat /\ x < Modulus
         /\ NumberOf(BitsOf(x, XLEN), XLEN) = x
         /\ \A k \in BitsOf(x, XLEN) : k \in 0 .. XLEN - 1
<1>1. x \in 0 .. Modulus - 1 /\ Modulus \in Nat  BY WidthFacts DEF Word
<1>2. x \in Nat /\ x < Modulus /\ x \in Int  BY <1>1
<1>3. NumberOf(BitsOf(x, XLEN), XLEN) = x % Modulus  BY <1>2, WidthFacts, NumberOfBits DEF Modulus
<1>4. x % Modulus = x  BY <1>1, SmallModulus
<1>5. \A k \in BitsOf(x, XLEN) : k \in 0 .. XLEN - 1  BY DEF BitsOf
<1> QED  BY <1>2, <1>3, <1>4, <1>5

\* The sign bit is worth SignBit, the bits below it less.
LEMMA TopBit ==
  ASSUME NEW bits
  PROVE  /\ NumberOf(bits, XLEN)
              = NumberOf(bits, XLEN - 1) + (IF XLEN - 1 \in bits THEN SignBit ELSE 0)
         /\ NumberOf(bits, XLEN - 1) \in 0 .. SignBit - 1
<1>1. NumberOf(bits, (XLEN - 1) + 1) = NumberOf(bits, XLEN - 1) + Weight(bits, XLEN - 1)
  BY WidthFacts, NumberStep
<1>2. NumberOf(bits, XLEN - 1) \in 0 .. 2 ^ (XLEN - 1) - 1  BY WidthFacts, NumberBelow
<1> QED  BY <1>1, <1>2, WidthFacts DEF SignBit, Weight

LEMMA SignBitBits ==
  \A k \in 0 .. XLEN - 1 : k \in BitsOf(SignBit, XLEN) <=> k = XLEN - 1
<1> DEFINE top == {XLEN - 1}
<1>1. \A k \in 0 .. (XLEN - 1) - 1 : k \notin top  BY WidthFacts
<1>2. NumberOf(top, XLEN - 1) = 0  BY <1>1, WidthFacts, NumberOfNone
<1>3. NumberOf(top, XLEN) = SignBit  BY <1>2, TopBit, WidthFacts
<1>4. \A k \in 0 .. XLEN - 1 : k \in BitsOf(NumberOf(top, XLEN), XLEN) <=> k \in top
  BY WidthFacts, BitsOfNumber
<1> QED  BY <1>3, <1>4

LEMMA SignTest ==
  ASSUME NEW x \in Word
  PROVE  /\ XLEN - 1 \in BitsOf(x, XLEN) <=> x >= SignBit
         /\ x & SignBit # 0 <=> x >= SignBit
<1> DEFINE b == BitsOf(x, XLEN)
           c == b \cap BitsOf(SignBit, XLEN)
<1>1. x = NumberOf(b, XLEN - 1) + (IF XLEN - 1 \in b THEN SignBit ELSE 0)
  BY WordHasBits, TopBit
<1>2. NumberOf(b, XLEN - 1) \in 0 .. SignBit - 1  BY TopBit
<1>3. XLEN - 1 \in b <=> x >= SignBit
  <2> HIDE DEF b
  <2> QED  BY <1>1, <1>2, WidthFacts
<1>4. /\ XLEN - 1 \in 0 .. XLEN - 1
      /\ \A k \in 0 .. (XLEN - 1) - 1 : k \in 0 .. XLEN - 1 /\ k # XLEN - 1
  BY WidthFacts
<1>5. XLEN - 1 \in c <=> XLEN - 1 \in b  BY <1>4, SignBitBits
<1>6. \A k \in 0 .. (XLEN - 1) - 1 : k \notin c  BY <1>4, SignBitBits
<1>7. x & SignBit = NumberOf(c, XLEN)  BY DEF &
<1> HIDE DEF b, c
<1>8. NumberOf(c, XLEN - 1) = 0  BY <1>6, WidthFacts, NumberOfNone
<1>9. NumberOf(c, XLEN) = IF XLEN - 1 \in c THEN SignBit ELSE 0  BY <1>8, TopBit, WidthFacts
<1>10. x & SignBit # 0 <=> XLEN - 1 \in c  BY <1>7, <1>9, WidthFacts
<1> QED  BY <1>3, <1>5, <1>10 DEF b

\* Flipping the sign bit adds or subtracts it.
LEMMA SignFlip ==
  ASSUME NEW x \in Word
  PROVE  x ^^ SignBit = IF x >= SignBit THEN x - SignBit ELSE x + SignBit
<1> DEFINE b == BitsOf(x, XLEN)
           t == BitsOf(SignBit, XLEN)
           c == (b \ t) \cup (t \ b)
<1>1. /\ XLEN - 1 \in 0 .. XLEN - 1
      /\ \A k \in 0 .. (XLEN - 1) - 1 : k \in 0 .. XLEN - 1 /\ k # XLEN - 1
  BY WidthFacts
<1>2. XLEN - 1 \in c <=> XLEN - 1 \notin b  BY <1>1, SignBitBits
<1>3. \A k \in 0 .. (XLEN - 1) - 1 : k \in c <=> k \in b  BY <1>1, SignBitBits
<1>4. x ^^ SignBit = NumberOf(c, XLEN)  BY DEF ^^
<1>5. XLEN - 1 \in b <=> x >= SignBit  BY SignTest
<1>6. NumberOf(b, XLEN) = x  BY WordHasBits
<1> HIDE DEF b, t, c
<1>7. NumberOf(c, XLEN - 1) = NumberOf(b, XLEN - 1)  BY <1>3, WidthFacts, NumberSame
<1>8. NumberOf(c, XLEN) = NumberOf(b, XLEN - 1) + (IF XLEN - 1 \in c THEN SignBit ELSE 0)
  BY <1>7, TopBit
<1>9. NumberOf(b, XLEN) = NumberOf(b, XLEN - 1) + (IF XLEN - 1 \in b THEN SignBit ELSE 0)
  BY TopBit
<1>10. NumberOf(b, XLEN - 1) \in Nat /\ SignBit \in Nat  BY TopBit, WidthFacts
<1> QED  BY <1>2, <1>4, <1>5, <1>6, <1>8, <1>9, <1>10

\* Masking with XLEN - 1 is the remainder by XLEN.
LEMMA MaskIsRemainder ==
  ASSUME NEW y \in Word
  PROVE  ShiftAmount(y) = y % XLEN /\ y % XLEN \in 0 .. XLEN - 1
<1>1. PICK m \in 1 .. 5 : XLEN = 2 ^ m  BY WidthFacts
<1>2. m \in 0 .. 32 /\ m <= XLEN
  <2>1. 2 ^ 1 = 2 /\ 2 ^ 2 = 4 /\ 2 ^ 3 = 8 /\ 2 ^ 4 = 16 /\ 2 ^ 5 = 32  OBVIOUS
  <2>2. CASE m = 1  BY <1>1, <2>1, <2>2
  <2>3. CASE m = 2  BY <1>1, <2>1, <2>3
  <2>4. CASE m = 3  BY <1>1, <2>1, <2>4
  <2>5. CASE m = 4  BY <1>1, <2>1, <2>5
  <2>6. CASE m = 5  BY <1>1, <2>1, <2>6
  <2> QED  BY <2>2, <2>3, <2>4, <2>5, <2>6
<1> DEFINE low == 0 .. m - 1
           b == BitsOf(y, XLEN)
           c == b \cap BitsOf(XLEN - 1, XLEN)
<1>3. NumberOf(low, XLEN) = XLEN - 1
  <2>1. \A k \in m .. XLEN - 1 : k \notin low  OBVIOUS
  <2>2. NumberOf(low, m) = 2 ^ m - 1  BY <1>2, NumberOfAll
  <2> HIDE DEF low
  <2>3. NumberOf(low, XLEN) = NumberOf(low, m)  BY <1>2, <2>1, WidthFacts, NumberCut
  <2> QED  BY <1>1, <2>2, <2>3
<1>4. \A k \in 0 .. XLEN - 1 : k \in BitsOf(XLEN - 1, XLEN) <=> k \in low
  <2> HIDE DEF low
  <2>1. \A k \in 0 .. XLEN - 1 : k \in BitsOf(NumberOf(low, XLEN), XLEN) <=> k \in low
    BY WidthFacts, BitsOfNumber
  <2> QED  BY <1>3, <2>1
<1>5. \A k \in m .. XLEN - 1 : k \notin c
  <2>1. \A k \in m .. XLEN - 1 : k \in 0 .. XLEN - 1 /\ k \notin low  BY <1>2, WidthFacts
  <2> QED  BY <1>4, <2>1
<1>6. \A k \in 0 .. m - 1 : k \in c <=> k \in BitsOf(y, m)
  <2>1. \A k \in 0 .. m - 1 : k \in 0 .. XLEN - 1 /\ k \in low  BY <1>2, WidthFacts
  <2>2. \A k \in 0 .. m - 1 : k \in c <=> k \in b  BY <1>4, <2>1
  <2>3. \A k \in 0 .. m - 1 : k \in b <=> k \in BitsOf(y, m)  BY <2>1 DEF BitsOf
  <2> QED  BY <2>2, <2>3
<1>7. y & (XLEN - 1) = NumberOf(c, XLEN)  BY DEF &
<1> HIDE DEF b, c, low
<1>8. NumberOf(c, XLEN) = NumberOf(c, m)  BY <1>2, <1>5, WidthFacts, NumberCut
<1>9. NumberOf(c, m) = NumberOf(BitsOf(y, m), m)  BY <1>2, <1>6, NumberSame
<1>10. y \in Int  BY WordHasBits
<1>11. NumberOf(BitsOf(y, m), m) = y % 2 ^ m  BY <1>2, <1>10, NumberOfBits
<1>12. y % XLEN \in 0 .. XLEN - 1  BY <1>10, WidthFacts
<1> QED  BY <1>1, <1>7, <1>8, <1>9, <1>11, <1>12 DEF ShiftAmount

\* The mask of arithmetic_right: the bits from XLEN - s on.
LEMMA SignMask ==
  ASSUME NEW s \in 1 .. XLEN - 1
  PROVE  /\ XLEN - s \in 1 .. XLEN - 1
         /\ 2 ^ (XLEN - s) \in Nat /\ 2 ^ s \in Nat /\ 2 ^ (XLEN - s) > 0 /\ 2 ^ s > 0
         /\ Modulus = 2 ^ s * 2 ^ (XLEN - s)
         /\ 2 ^ (XLEN - s) < Modulus
         /\ ShiftLeft(Modulus - 1, XLEN - s) = Modulus - 2 ^ (XLEN - s)
         /\ \A k \in 0 .. XLEN - 1 :
              k \in BitsOf(Modulus - 2 ^ (XLEN - s), XLEN) <=> k \in XLEN - s .. XLEN - 1
<1> DEFINE t == XLEN - s
           p == 2 ^ t
           m == 2 ^ s
<1>1. /\ t \in 1 .. XLEN - 1 /\ t \in 0 .. 32 /\ s \in 0 .. 32 /\ s + t = XLEN /\ s + t <= 32
      /\ s - 1 \in 0 .. 31 /\ s - 1 \in 0 .. 32 /\ (s - 1) + 1 = s
  BY WidthFacts
<1>2. p \in Nat /\ p > 0 /\ m \in Nat /\ m > 0  BY <1>1, Powers
<1>3. Modulus = m * p
  <2>1. 2 ^ (s + t) = 2 ^ s * 2 ^ t
    <3> HIDE DEF t
    <3> QED  BY <1>1, PowerSum
  <2> QED  BY <1>1, <2>1 DEF Modulus
<1>4. m >= 2
  <2>1. m = 2 * 2 ^ (s - 1) /\ 2 ^ (s - 1) \in Nat /\ 2 ^ (s - 1) > 0  BY <1>1, Powers
  <2> QED  BY <2>1
<1> HIDE DEF p, m
<1>5. p < Modulus
  <2>1. 2 * p <= m * p  BY <1>2, <1>4
  <2> QED  BY <1>2, <1>3, <2>1
<1>6. ((Modulus - 1) * p) % Modulus = Modulus - p
  <2>1. (Modulus - 1) * p = (p - 1) * Modulus + (Modulus - p)  BY <1>2, WidthFacts
  <2>2. p - 1 \in Int /\ Modulus - p \in 0 .. Modulus - 1 /\ Modulus \in Nat /\ Modulus > 0
    BY <1>2, <1>5, WidthFacts
  <2> HIDE DEF t
  <2> QED  BY <2>1, <2>2, Division
<1>7. ShiftLeft(Modulus - 1, t) = Modulus - p  BY <1>6 DEF ShiftLeft, p
<1> DEFINE high == t .. XLEN - 1
           low == 0 .. t - 1
<1>8. NumberOf(high, XLEN) = Modulus - p
  <2> DEFINE whole == 0 .. XLEN - 1
  <2>1. Splits(whole, low, high, XLEN)  BY <1>1, WidthFacts DEF Splits
  <2>3. \A k \in t .. XLEN - 1 : k \notin low  BY <1>1, WidthFacts
  <2>4. NumberOf(low, t) = p - 1  BY <1>1, NumberOfAll DEF p
  <2>5. NumberOf(whole, XLEN) = Modulus - 1  BY WidthFacts, NumberOfAll DEF Modulus
  <2>6. t <= XLEN  BY <1>1
  <2> HIDE DEF whole, low, high, t
  <2>7. NumberOf(low, XLEN) = NumberOf(low, t)  BY <1>1, <2>3, <2>6, WidthFacts, NumberCut
  <2>8. NumberOf(whole, XLEN) = NumberOf(low, XLEN) + NumberOf(high, XLEN)
    BY <2>1, WidthFacts, NumberSum
  <2>9. NumberOf(high, XLEN) \in Nat  BY WidthFacts, NumberStep
  <2>10. Modulus - 1 = (p - 1) + NumberOf(high, XLEN)  BY <2>4, <2>5, <2>7, <2>8
  <2> QED  BY <1>2, <2>9, <2>10, WidthFacts
<1>9. \A k \in 0 .. XLEN - 1 : k \in BitsOf(Modulus - p, XLEN) <=> k \in high
  <2> HIDE DEF high
  <2>1. \A k \in 0 .. XLEN - 1 : k \in BitsOf(NumberOf(high, XLEN), XLEN) <=> k \in high
    BY WidthFacts, BitsOfNumber
  <2> QED  BY <1>8, <2>1
<1> QED  BY <1>1, <1>2, <1>3, <1>5, <1>7, <1>9 DEF p, m

\* Or-ing the sign mask onto a quotient below it adds it.
LEMMA MaskAdds ==
  ASSUME NEW s \in 1 .. XLEN - 1, NEW q \in 0 .. 2 ^ (XLEN - s) - 1
  PROVE  q | ShiftLeft(Modulus - 1, XLEN - s) = q + (Modulus - 2 ^ (XLEN - s))
<1> DEFINE t == XLEN - s
           p == 2 ^ t
           high == Modulus - p
           bits == BitsOf(q, XLEN)
           mask == BitsOf(high, XLEN)
<1>1. /\ t \in 1 .. XLEN - 1 /\ t \in 0 .. 32 /\ t <= XLEN
      /\ p \in Nat /\ p > 0 /\ p < Modulus /\ q \in 0 .. p - 1 /\ q \in Int
      /\ q \in Word /\ high \in Word
  BY SignMask, WidthFacts DEF Word
<1>2. q % p = q  BY <1>1, SmallModulus
<1>3. \A k \in t .. XLEN - 1 : k \notin bits
  <2> DEFINE c == BitsOf(q, t)
  <2>1. \A k \in t .. XLEN - 1 : k \notin c  BY <1>1, WidthFacts DEF BitsOf
  <2>2. \A k \in t .. XLEN - 1 : k \in 0 .. XLEN - 1  BY <1>1, WidthFacts
  <2> HIDE DEF t
  <2>3. NumberOf(c, t) = q  BY <1>1, <1>2, NumberOfBits
  <2> HIDE DEF c
  <2>4. NumberOf(c, XLEN) = NumberOf(c, t)  BY <1>1, <2>1, WidthFacts, NumberCut
  <2>5. NumberOf(bits, XLEN) = q  BY <1>1, WordHasBits
  <2>6. NumberOf(bits, XLEN) = NumberOf(c, XLEN)  BY <2>3, <2>4, <2>5
  <2> HIDE DEF bits
  <2>7. \A k \in 0 .. XLEN - 1 : k \in bits <=> k \in c  BY <2>6, WidthFacts, NumberInjective
  <2> QED  BY <2>1, <2>2, <2>7
<1>4. \A k \in 0 .. XLEN - 1 : k \in mask <=> k \in t .. XLEN - 1  BY SignMask
<1>5. \A k \in 0 .. XLEN - 1 : ~(k \in bits /\ k \in mask)
  <2> HIDE DEF bits, mask
  <2> QED  BY <1>3, <1>4
<1>6. NumberOf(bits, XLEN) = q /\ NumberOf(mask, XLEN) = high  BY <1>1, WordHasBits
<1>7. q | ShiftLeft(Modulus - 1, XLEN - s) = NumberOf(bits \cup mask, XLEN)  BY SignMask DEF |
<1> HIDE DEF bits, mask, high, p
<1>8. NumberOf(bits \cup mask, XLEN) = NumberOf(bits, XLEN) + NumberOf(mask, XLEN)
  <2> DEFINE whole == bits \cup mask
  <2>1. Splits(whole, bits, mask, XLEN)  BY <1>5 DEF Splits
  <2> HIDE DEF whole
  <2>2. NumberOf(whole, XLEN) = NumberOf(bits, XLEN) + NumberOf(mask, XLEN)
    BY <2>1, WidthFacts, NumberSum
  <2> QED  BY <2>2 DEF whole
<1> QED  BY <1>6, <1>7, <1>8 DEF high, p

LEMMA SignedFacts ==
  ASSUME NEW x \in Word
  PROVE  /\ Signed(x) \in Int /\ Signed(x) % Modulus = x
         /\ x >= SignBit => Signed(x) = x - Modulus
         /\ x < SignBit => Signed(x) = x
<1>1. x \in 0 .. Modulus - 1 /\ Modulus \in Nat /\ Modulus > 0 /\ SignBit \in Nat
  BY WidthFacts DEF Word
<1>2. x \in Int /\ x = 0 * Modulus + x /\ x - Modulus = (-1) * Modulus + x  BY <1>1
<1>3. (0 * Modulus + x) % Modulus = x /\ ((-1) * Modulus + x) % Modulus = x  BY <1>1, Division
<1> QED  BY <1>1, <1>2, <1>3 DEF Signed

LEMMA ArithmeticShift ==
  ASSUME NEW x \in Word, NEW y \in Word
  PROVE  ArithmeticRight(x, y) = (Signed(x) \div 2 ^ (y % XLEN)) % Modulus
<1> DEFINE s == y % XLEN
<1>1. ShiftAmount(y) = s /\ s \in 0 .. XLEN - 1  BY MaskIsRemainder
<1>2. x \in Nat /\ x < Modulus /\ x \in Int  BY WordHasBits
<1>3. x & SignBit # 0 <=> x >= SignBit  BY SignTest
<1> HIDE DEF s
<1>4. CASE s = 0
  <2>1. ArithmeticRight(x, y) = x  BY <1>1, <1>4 DEF ArithmeticRight
  <2>2. Signed(x) \div 1 = Signed(x)  BY SignedFacts
  <2>3. 2 ^ s = 1  BY <1>4, Powers
  <2> QED  BY <2>1, <2>2, <2>3, SignedFacts DEF s
<1>5. CASE s # 0
  <2> DEFINE m == 2 ^ s
             p == 2 ^ (XLEN - s)
             q == x \div m
             r == x % m
  <2>1. s \in 1 .. XLEN - 1  BY <1>1, <1>5, WidthFacts
  <2>2. /\ m \in Nat /\ m > 0 /\ p \in Nat /\ p > 0 /\ Modulus = m * p /\ p < Modulus
    BY <2>1, SignMask
  <2> HIDE DEF m, p
  <2>3. x = q * m + r /\ q \in Int /\ r \in 0 .. m - 1  BY <1>2, <2>2, Divided
  <2> HIDE DEF q, r
  <2>4. q >= 0
    <3> SUFFICES ASSUME q <= -1 PROVE FALSE
      BY <2>3
    <3>1. q * m <= (-1) * m  BY <2>2, <2>3
    <3> QED  BY <1>2, <2>2, <2>3, <3>1
  <2>5. q < p
    <3> SUFFICES ASSUME q >= p PROVE FALSE
      BY <2>2, <2>3
    <3>1. q * m >= p * m /\ p * m = m * p  BY <2>2, <2>3
    <3> QED  BY <1>2, <2>2, <2>3, <3>1
  <2>6. q \in 0 .. p - 1  BY <2>2, <2>3, <2>4, <2>5
  <2>7. CASE x >= SignBit
    <3>1. ArithmeticRight(x, y) = q | ShiftLeft(Modulus - 1, XLEN - s)
      BY <1>1, <1>3, <1>5, <2>7 DEF ArithmeticRight, ShiftRight, q, m
    <3>2. q | ShiftLeft(Modulus - 1, XLEN - s) = q + (Modulus - p)
      BY <2>1, <2>6, MaskAdds DEF p
    <3>3. Signed(x) = (q - p) * m + r
      <4>1. Signed(x) = x - Modulus  BY <2>7, SignedFacts
      <4>2. (q - p) * m = q * m - m * p  BY <2>2, <2>3
      <4>3. q * m \in Int /\ m * p \in Int /\ r \in Int  BY <2>2, <2>3
      <4> QED  BY <2>2, <2>3, <4>1, <4>2, <4>3
    <3>4. q - p \in Int  BY <2>2, <2>3
    <3>5. Signed(x) \div m = q - p  BY <2>2, <2>3, <3>3, <3>4, Division
    <3>6. q - p = (-1) * Modulus + (q + (Modulus - p)) /\ q + (Modulus - p) \in 0 .. Modulus - 1
      BY <2>2, <2>6, WidthFacts
    <3>7. (q - p) % Modulus = q + (Modulus - p)
      <4>1. -1 \in Int /\ Modulus \in Nat /\ Modulus > 0  BY WidthFacts
      <4> QED  BY <3>6, <4>1, Division
    <3> QED  BY <3>1, <3>2, <3>5, <3>7 DEF m, s
  <2>8. CASE ~(x >= SignBit)
    <3>1. ArithmeticRight(x, y) = q
      BY <1>1, <1>3, <1>5, <2>8 DEF ArithmeticRight, ShiftRight, q, m
    <3>2. Signed(x) = x  BY <2>8 DEF Signed
    <3>3. q \in 0 .. Modulus - 1 /\ Modulus \in Nat  BY <2>2, <2>6, WidthFacts
    <3>4. q % Modulus = q  BY <3>3, SmallModulus
    <3> QED  BY <3>1, <3>2, <3>4 DEF q, m, s
  <2> QED  BY <2>7, <2>8
<1> QED  BY <1>4, <1>5

LEMMA BitsAreArithmeticFact ==
  ASSUME left \in Word, right \in Word
  PROVE  BitsAreArithmetic
<1> DEFINE M == Modulus
           H == SignBit
           difference == (left - right) % M
<1>1. /\ M \in Nat /\ H \in Nat /\ H > 0 /\ M = 2 * H
      /\ left \in 0 .. M - 1 /\ right \in 0 .. M - 1
  BY WidthFacts DEF Word
<1>2. left ^^ SignBit = (IF left >= H THEN left - H ELSE left + H)
      /\ right ^^ SignBit = (IF right >= H THEN right - H ELSE right + H)
  BY SignFlip
<1>3. SignedLess(left, right) <=> Signed(left) < Signed(right)
  BY <1>1, <1>2 DEF SignedLess, Signed
<1>4. Result("SLT", left, right) = Flag(SignedLess(left, right))  BY DEF Result
<1>5. Result("SUB", left, right) = difference  BY DEF Result
<1>6. difference \in 0 .. M - 1
      /\ difference \in {left - right, left - right + M}
  <2> DEFINE k == (left - right) \div M
  <2>1. left - right \in Int /\ left - right < M /\ left - right > -M  BY <1>1
  <2>2. left - right = k * M + difference /\ k \in Int /\ difference \in 0 .. M - 1
    BY <1>1, <2>1, Divided
  <2> HIDE DEF k, difference
  <2>3. k \in {-1, 0}
    <3>1. k >= 1 => k * M >= M  BY <1>1, <2>2
    <3>2. k <= -2 => k * M <= -2 * M  BY <1>1, <2>2
    <3> QED  BY <1>1, <2>1, <2>2, <3>1, <3>2
  <2>4. 0 * M = 0 /\ (-1) * M = -M  BY <1>1
  <2>5. CASE k = 0  BY <1>1, <2>2, <2>4, <2>5
  <2>6. CASE k = -1  BY <1>1, <2>2, <2>4, <2>6
  <2> QED  BY <2>3, <2>5, <2>6
<1> HIDE DEF difference
<1>7. Signed(difference) - (Signed(left) - Signed(right)) \in {-M, 0, M}
  BY <1>1, <1>6 DEF Signed
<1>8. ComparesSigned  BY <1>3, <1>4, <1>5, <1>7 DEF ComparesSigned, Flag
<1>9. ShiftAmount(right) = right % XLEN  BY MaskIsRemainder
<1>10. Result("SLL", left, right) = (left * 2 ^ (right % XLEN)) % Modulus
  BY <1>9 DEF Result, ShiftLeft
<1>11. Result("SRL", left, right) = left \div 2 ^ (right % XLEN)
  BY <1>9 DEF Result, ShiftRight
<1>12. Result("SRA", left, right) = (Signed(left) \div 2 ^ (right % XLEN)) % Modulus
  BY ArithmeticShift DEF Result
<1>13. ShiftsScale  BY <1>10, <1>11, <1>12 DEF ShiftsScale
<1> QED  BY <1>8, <1>13 DEF BitsAreArithmetic

\* For words of every width of a power of two up to 32 bits and every pair of
\* them: the masks, shifts and the flipped sign bit of execute() compute the
\* comparison, the difference and the scaling of the integers they stand for.
THEOREM AluIsArithmetic == OperandsSpec => []BitsAreArithmetic
<1> DEFINE Words == left \in Word /\ right \in Word
<1>1. OperandsInit => Words  BY WidthFacts DEF OperandsInit, Word
<1>2. Words /\ [Count]_<<left, right>> => Words'
  <2> SUFFICES ASSUME Words, [Count]_<<left, right>> PROVE Words'
    OBVIOUS
  <2>1. CASE Count
    <3>1. right + 1 \in Int /\ Modulus \in Nat /\ Modulus > 0  BY WidthFacts DEF Word
    <3>2. (right + 1) % Modulus \in 0 .. Modulus - 1  BY <3>1
    <3> QED  BY <2>1, <3>2 DEF Count, Word
  <2>2. CASE UNCHANGED <<left, right>>  BY <2>2
  <2> QED  BY <2>1, <2>2
<1>3. Words => BitsAreArithmetic  BY BitsAreArithmeticFact
<1> QED  BY <1>1, <1>2, <1>3, PTL DEF OperandsSpec

LEMMA WidthIsWord == 0 .. XLEN - 1 \subseteq Word
<1> DEFINE S == {n \in Nat : n < 2 ^ n}
<1>1. 0 \in S  BY Powers
<1>2. ASSUME NEW n \in 0 .. 31, n \in S PROVE n + 1 \in S
  <2>1. 2 ^ n \in Nat /\ 2 ^ (n + 1) = 2 * 2 ^ n  BY Doubles
  <2>2. n < 2 ^ n  BY <1>2
  <2>3. n + 1 < 2 ^ (n + 1)  BY <2>1, <2>2
  <2> QED  BY <2>3
<1>3. \A n \in 0 .. 32 : n \in S
  <2> HIDE DEF S
  <2> QED  BY <1>1, <1>2, WidthInduction
<1>4. XLEN < Modulus  BY <1>3, WidthFacts DEF Modulus
<1> QED  BY <1>4, WidthFacts DEF Word

LEMMA RemainderIsWord == \A n \in Int : n % Modulus \in Word
<1>1. Modulus \in Nat /\ Modulus > 0  BY WidthFacts
<1> HIDE DEF Modulus
<1> QED  BY <1>1 DEF Word

LEMMA NumberIsWord == \A bits : NumberOf(bits, XLEN) \in Word
<1>1. \A bits : NumberOf(bits, XLEN) \in 0 .. 2 ^ XLEN - 1  BY NumberBelow, WidthFacts
<1> QED  BY <1>1 DEF Word, Modulus

LEMMA ShiftsAreWords ==
  ASSUME NEW x \in Word, NEW n \in 0 .. XLEN - 1
  PROVE  ShiftLeft(x, n) \in Word /\ ShiftRight(x, n) \in Word
<1>1. x \in Nat /\ x < Modulus  BY WordHasBits
<1>2. 2 ^ n \in Nat /\ 2 ^ n > 0
  <2>1. n \in 0 .. 32  BY WidthFacts
  <2> QED  BY <2>1, Powers
<1>3. \A p \in Nat : x * p \in Int /\ (p > 0 => x \div p \in Nat /\ x \div p <= x)
  <2> SUFFICES ASSUME NEW p \in Nat, p > 0 PROVE x \div p \in Nat /\ x \div p <= x
    BY <1>1
  <2> DEFINE q == x \div p
             r == x % p
  <2>1. x = q * p + r /\ q \in Int /\ r \in 0 .. p - 1  BY <1>1, Divided
  <2> HIDE DEF q, r
  <2>2. q >= 0
    <3> SUFFICES ASSUME q <= -1 PROVE FALSE
      BY <2>1
    <3>1. q * p <= (-1) * p  BY <2>1
    <3> QED  BY <1>1, <2>1, <3>1
  <2>3. q <= x
    <3>1. q * p >= q * 1  BY <2>1, <2>2
    <3> QED  BY <1>1, <2>1, <2>2, <3>1
  <2> QED  BY <2>1, <2>2, <2>3 DEF q
<1>4. x * 2 ^ n \in Int /\ x \div 2 ^ n \in Nat /\ x \div 2 ^ n <= x  BY <1>2, <1>3
<1>5. (x * 2 ^ n) % Modulus \in Word  BY <1>4, RemainderIsWord
<1>6. x \div 2 ^ n \in Word  BY <1>1, <1>4, WidthFacts DEF Word
<1> QED  BY <1>5, <1>6 DEF ShiftLeft, ShiftRight

\* Every operation of the ALU yields a word, for every pair of words and every
\* shift immediate the decoder delivers: what the CPU assumes of it
\* (AluAssumption), and what uint32_t ensures in execute().
THEOREM AluYieldsWords ==
  /\ \A kind \in RKinds \cup ArithmeticKinds, x, y \in Word : Result(kind, x, y) \in Word
  /\ \A kind \in ShiftKinds, x \in Word, y \in 0 .. XLEN - 1 : Result(kind, x, y) \in Word
<1>1. ASSUME NEW x \in Word, NEW y \in Word
      PROVE  /\ (x + y) % Modulus \in Word /\ (x - y) % Modulus \in Word
             /\ ShiftLeft(x, ShiftAmount(y)) \in Word /\ ShiftRight(x, ShiftAmount(y)) \in Word
             /\ ArithmeticRight(x, y) \in Word
             /\ x & y \in Word /\ (x | y) \in Word /\ x ^^ y \in Word
  <2>1. x + y \in Int /\ x - y \in Int  BY WordHasBits
  <2>2. ShiftLeft(x, ShiftAmount(y)) \in Word /\ ShiftRight(x, ShiftAmount(y)) \in Word
    BY MaskIsRemainder, ShiftsAreWords
  <2>3. ArithmeticRight(x, y) \in Word
    <3> DEFINE s == y % XLEN
    <3>1. s \in 0 .. 32  BY MaskIsRemainder, WidthFacts
    <3>2. Signed(x) \in Int /\ 2 ^ s \in Nat /\ 2 ^ s > 0
      <4> HIDE DEF s
      <4> QED  BY <3>1, SignedFacts, Powers
    <3>3. Signed(x) \div 2 ^ s \in Int
      <4> HIDE DEF s
      <4> QED  BY <3>2, Divided
    <3> QED  BY <3>3, ArithmeticShift, RemainderIsWord
  <2>4. x & y \in Word /\ (x | y) \in Word /\ x ^^ y \in Word  BY NumberIsWord DEF &, |, ^^
  <2>5. (x + y) % Modulus \in Word /\ (x - y) % Modulus \in Word  BY <2>1, RemainderIsWord
  <2> QED  BY <2>2, <2>3, <2>4, <2>5
<1>2. \A b : Flag(b) \in Word
  <2>1. 0 \in 0 .. XLEN - 1 /\ 1 \in 0 .. XLEN - 1  BY XLENAssumption
  <2> QED  BY <2>1, WidthIsWord DEF Flag
<1>3. ASSUME NEW kind \in RKinds \cup ArithmeticKinds, NEW x \in Word, NEW y \in Word
      PROVE  Result(kind, x, y) \in Word
  BY <1>1, <1>2 DEF Result, RKinds, ArithmeticKinds
<1>4. ASSUME NEW kind \in ShiftKinds, NEW x \in Word, NEW y \in 0 .. XLEN - 1
      PROVE  Result(kind, x, y) \in Word
  <2>1. y \in Word  BY WidthIsWord
  <2> QED  BY <1>1, <2>1, ShiftsAreWords DEF Result, ShiftKinds
<1> QED  BY <1>3, <1>4

-----------------------------------------------------------------------------
(* The text of an instruction.                                               *)

LEMMA NoWeight ==
  ASSUME NEW v \in WordBits
  PROVE  31 \notin v => NumberOf(v, 32) = NumberOf(v, 31)
<1>1. 31 \in 0 .. 32 /\ 32 \in 0 .. 32 /\ 31 <= 32  OBVIOUS
<1>2. \A k \in 31 .. 32 - 1 : k = 31  OBVIOUS
<1> QED  BY <1>1, <1>2, NumberCut

\* Printing an immediate as a number and reading it back loses nothing, its sign
\* neither.
LEMMA SignedValueRead ==
  ASSUME NEW v \in WordBits
  PROVE  WordOf(SignedValue(v)) = v
<1> DEFINE n == SignedValue(v)
           N == NumberOf(v, 31)
           c == Positions \ v
           half == 2 ^ 31
<1>1. 31 \in 0 .. 32 /\ 31 \in 0 .. 31 /\ half \in Nat /\ half > 0  BY Powers
<1>2. N \in 0 .. half - 1  BY <1>1, NumberBelow
<1>3. n \in Int /\ n % half = N /\ (n < 0 <=> 31 \in v)
  <2> HIDE DEF half
  <2>1. CASE 31 \notin v
    <3>1. n = N  BY <2>1, NoWeight DEF SignedValue, Magnitude
    <3> HIDE DEF n, N
    <3> QED  BY <1>1, <1>2, <2>1, <3>1, SmallModulus
  <2>2. CASE 31 \in v
    <3>1. c \in WordBits /\ 31 \notin c  BY <2>2 DEF WordBits
    <3>2. n = -(NumberOf(c, 31) + 1)  BY <2>2, <3>1, NoWeight DEF SignedValue, Magnitude
    <3> DEFINE whole == 0 .. 31 - 1
    <3>3. Splits(whole, v, c, 31)  BY DEF Splits, Positions
    <3>4. NumberOf(whole, 31) = half - 1  BY <1>1, NumberOfAll DEF half
    <3> HIDE DEF c, whole
    <3>5. NumberOf(whole, 31) = N + NumberOf(c, 31)  BY <1>1, <3>3, NumberSum
    <3>6. NumberOf(c, 31) \in Nat  BY <1>1, NumberStep
    <3> HIDE DEF n, N
    <3>7. n = N - half  BY <1>1, <1>2, <3>2, <3>4, <3>5, <3>6
    <3>8. n = (-1) * half + N /\ -1 \in Int  BY <1>1, <1>2, <3>7
    <3>9. n \in Int /\ n < 0  BY <1>1, <1>2, <3>7
    <3> QED  BY <1>1, <1>2, <2>2, <3>8, <3>9, Division
  <2> QED  BY <2>1, <2>2
<1>4. \A k \in 0 .. 31 - 1 : k \in BitsOf(n, 31) <=> k \in v
  <2> HIDE DEF n
  <2>1. NumberOf(BitsOf(n, 31), 31) = N  BY <1>1, <1>3, NumberOfBits
  <2> QED  BY <1>1, <2>1, NumberInjective
<1>5. BitsOf(n, 31) \subseteq 0 .. 31 - 1  BY DEF BitsOf
<1> HIDE DEF n
<1>6. ASSUME NEW k PROVE k \in WordOf(n) <=> k \in v
  <2>1. CASE k \in 0 .. 31 - 1  BY <1>4, <2>1 DEF WordOf
  <2>2. CASE k = 31
    <3>1. 31 \notin BitsOf(n, 31)  BY <1>5
    <3> QED  BY <1>3, <2>2, <3>1 DEF WordOf
  <2>3. CASE k \notin Positions
    <3>1. \A j \in 0 .. 31 - 1 : j \in Positions  BY DEF Positions
    <3>2. 31 \in Positions  BY DEF Positions
    <3>3. k \notin BitsOf(n, 31) /\ k # 31  BY <1>5, <2>3, <3>1, <3>2
    <3>4. k \notin v  BY <2>3 DEF WordBits
    <3> QED  BY <3>3, <3>4 DEF WordOf
  <2>4. k \in Positions => k \in 0 .. 31 - 1 \/ k = 31  BY DEF Positions
  <2> QED  BY <2>1, <2>2, <2>3, <2>4
<1>7. WordOf(n) = v  BY <1>6, Zenon
<1> QED  BY <1>7 DEF n

LEMMA ZeroRead == WordOf(0) = {}
<1>1. {} \in WordBits /\ 31 \notin {}  BY DEF WordBits
<1>2. NumberOf({}, 32) = 0
  <2>1. 32 \in 0 .. 32  OBVIOUS
  <2> QED  BY <2>1, NumberOfNone
<1>3. SignedValue({}) = 0  BY <1>1, <1>2 DEF SignedValue, Magnitude
<1> QED  BY <1>1, <1>3, SignedValueRead

\* The operand that stands where the syntax has its name.
ReadBy(syntax, shown, name, absent) ==
  IF \E k \in DOMAIN syntax : syntax[k] = name
    THEN shown[CHOOSE k \in DOMAIN syntax : syntax[k] = name] ELSE absent

LEMMA ReadAt ==
  ASSUME NEW syntax, NEW shown, NEW name, NEW absent, NEW j \in DOMAIN syntax, syntax[j] = name,
         \A k \in DOMAIN syntax : syntax[k] = name => k = j
  PROVE  ReadBy(syntax, shown, name, absent) = shown[j]
BY DEF ReadBy

LEMMA Reassembled ==
  ASSUME NEW name, NEW shown, NEW syntax, syntax = Syntax(name)
  PROVE  LET Operand(n, absent) == ReadBy(syntax, shown, n, absent)
         IN Reassemble([name |-> name, operands |-> shown])
              = Instruction(name, Operand("rd", {}), Operand("rs1", {}), Operand("rs2", {}),
                            WordOf(Operand("imm", 0)) \cup WordOf(Operand("offset", 0))
                            \cup WordOf(Operand("shamt", 0))
                            \cup ShiftedLeft(Operand("imm20", {}), 12))
BY DEF Reassemble, ReadBy

Shape(k) ==
  IF k \in RKinds THEN "R" ELSE IF k \in ShiftKinds \cup IKinds THEN "I"
  ELSE IF k \in SKinds THEN "S" ELSE IF k \in BKinds THEN "B"
  ELSE IF k \in {"LUI", "AUIPC"} THEN "U" ELSE IF k = "JAL" THEN "J" ELSE "I"

LEMMA FormatOfKind ==
  ASSUME NEW w \in WordBits, NEW k \in DOMAIN Codes, Matches(w, k)
  PROVE  Format(w) = Shape(k)
<1>1. CASE k \in RKinds
  <2>1. Opcode(w) = OP  BY <1>1, CodesAre DEF Matches
  <2> QED  BY <1>1, <2>1 DEF Format, Shape
<1>2. CASE k \in ShiftKinds \cup IKinds
  <2>1. Opcode(w) \in {OP_IMM, LOAD, JALR}  BY <1>2, CodesAre, KindsApart DEF Matches, Code
  <2> QED  BY <1>2, <2>1, OpcodesApart, KindsApart DEF Format, Shape
<1>3. CASE k \in SKinds
  <2>1. Opcode(w) = STORE  BY <1>3, CodesAre DEF Matches
  <2> QED  BY <1>3, <2>1, OpcodesApart, KindsApart DEF Format, Shape
<1>4. CASE k \in BKinds
  <2>1. Opcode(w) = BRANCH  BY <1>4, CodesAre DEF Matches
  <2> QED  BY <1>4, <2>1, OpcodesApart, KindsApart DEF Format, Shape
<1>5. CASE k \in {"LUI", "AUIPC"}
  <2>1. Opcode(w) \in {LUI, AUIPC}  BY <1>5, CodesAre DEF Matches, Code
  <2> QED  BY <1>5, <2>1, OpcodesApart, KindsApart DEF Format, Shape
<1>6. CASE k = "JAL"
  <2>1. Opcode(w) = JAL  BY <1>6, CodesAre DEF Matches, Code
  <2> QED  BY <1>6, <2>1, OpcodesApart, KindsApart DEF Format, Shape
<1>7. CASE k \in {"ECALL", "EBREAK"}
  <2>1. Opcode(w) = SYSTEM  BY <1>7, CodesAre DEF Matches, Code
  <2> QED  BY <1>7, <2>1, OpcodesApart, KindsApart DEF Format, Shape
<1> QED  BY <1>1, <1>2, <1>3, <1>4, <1>5, <1>6, <1>7, KindIsOne

\* What is shown of a word, and the syntax it is read by.
LEMMA ShownOfKind ==
  ASSUME NEW w \in WordBits, NEW k \in DOMAIN Codes, Kind(w) = k, Matches(w, k)
  PROVE  LET signed == SignedValue(Immediate(w))
         IN /\ k \in RKinds => OperandsShown(w) = <<Rd(w), Rs1(w), Rs2(w)>>
            /\ k \in ShiftKinds \cup ArithmeticKinds =>
                 OperandsShown(w) = <<Rd(w), Rs1(w), signed>>
            /\ k \in LoadKinds \cup {"JALR"} => OperandsShown(w) = <<Rd(w), signed, Rs1(w)>>
            /\ k \in SKinds => OperandsShown(w) = <<Rs2(w), signed, Rs1(w)>>
            /\ k \in BKinds => OperandsShown(w) = <<Rs1(w), Rs2(w), signed>>
            /\ k \in {"LUI", "AUIPC"} =>
                 OperandsShown(w) = <<Rd(w), ShiftedRight(Immediate(w), 12)>>
            /\ k = "JAL" => OperandsShown(w) = <<Rd(w), signed>>
            /\ k \in {"ECALL", "EBREAK"} => OperandsShown(w) = << >>
<1> DEFINE v == Immediate(w)
           signed == SignedValue(v)
           loads == {"JALR", "LB", "LH", "LW", "LBU", "LHU"}
<1>1. /\ Decode(w).kind = k /\ Decode(w).format = Shape(k) /\ Decode(w).rd = Rd(w)
      /\ Decode(w).rs1 = Rs1(w) /\ Decode(w).rs2 = Rs2(w) /\ Decode(w).immediate = v
  BY FormatOfKind DEF Decode
<1>2. k \notin {"UNKNOWN", "FENCE"}  BY KindIsOne, KindsApart
<1>3. LoadForm(Decode(w)) <=> k \in LoadKinds \cup {"JALR"}  BY <1>1 DEF LoadForm, LoadKinds
<1>4. StoreOperands(Decode(w)) = <<Rs2(w), signed, Rs1(w)>>  BY <1>1 DEF StoreOperands
<1> HIDE DEF v, signed
<1>5. OperandsShown(w) =
        IF k \in {"ECALL", "EBREAK"} THEN << >>
        ELSE IF Shape(k) = "R" THEN <<Rd(w), Rs1(w), Rs2(w)>>
        ELSE IF Shape(k) = "U" THEN <<Rd(w), ShiftedRight(v, 12)>>
        ELSE IF Shape(k) = "J" THEN <<Rd(w), signed>>
        ELSE IF Shape(k) = "B" THEN <<Rs1(w), Rs2(w), signed>>
        ELSE IF Shape(k) = "S" THEN <<Rs2(w), signed, Rs1(w)>>
        ELSE IF k \in LoadKinds \cup {"JALR"} THEN <<Rd(w), signed, Rs1(w)>>
        ELSE <<Rd(w), Rs1(w), signed>>
  BY <1>1, <1>2, <1>3, <1>4 DEF OperandsShown, signed
<1> SUFFICES /\ k \in RKinds => OperandsShown(w) = <<Rd(w), Rs1(w), Rs2(w)>>
             /\ k \in ShiftKinds \cup ArithmeticKinds =>
                  OperandsShown(w) = <<Rd(w), Rs1(w), signed>>
             /\ k \in LoadKinds \cup {"JALR"} => OperandsShown(w) = <<Rd(w), signed, Rs1(w)>>
             /\ k \in SKinds => OperandsShown(w) = <<Rs2(w), signed, Rs1(w)>>
             /\ k \in BKinds => OperandsShown(w) = <<Rs1(w), Rs2(w), signed>>
             /\ k \in {"LUI", "AUIPC"} => OperandsShown(w) = <<Rd(w), ShiftedRight(v, 12)>>
             /\ k = "JAL" => OperandsShown(w) = <<Rd(w), signed>>
             /\ k \in {"ECALL", "EBREAK"} => OperandsShown(w) = << >>
  BY DEF v, signed
<1> QED  BY <1>5, KindsApart DEF Shape

LEMMA SyntaxOfKind ==
  ASSUME NEW k \in DOMAIN Codes
  PROVE  /\ k \in RKinds => Syntax(k) = <<"rd", "rs1", "rs2">>
         /\ k \in ShiftKinds => Syntax(k) = <<"rd", "rs1", "shamt">>
         /\ k \in ArithmeticKinds => Syntax(k) = <<"rd", "rs1", "imm">>
         /\ k \in LoadKinds \cup {"JALR"} => Syntax(k) = <<"rd", "offset", "rs1">>
         /\ k \in SKinds => Syntax(k) = <<"rs2", "offset", "rs1">>
         /\ k \in BKinds => Syntax(k) = <<"rs1", "rs2", "offset">>
         /\ k \in {"LUI", "AUIPC"} => Syntax(k) = <<"rd", "imm20">>
         /\ k = "JAL" => Syntax(k) = <<"rd", "offset">>
         /\ k \in {"ECALL", "EBREAK"} => Syntax(k) = << >>
<1>1. LoadKinds = {"LB", "LH", "LW", "LBU", "LHU"}  BY DEF LoadKinds
<1>2. Syntax(k) =
        IF k \in RKinds THEN <<"rd", "rs1", "rs2">>
        ELSE IF k = "JALR" \/ k \in LoadKinds THEN <<"rd", "offset", "rs1">>
        ELSE IF k \in IKinds THEN <<"rd", "rs1", "imm">>
        ELSE IF k \in ShiftKinds THEN <<"rd", "rs1", "shamt">>
        ELSE IF k \in SKinds THEN <<"rs2", "offset", "rs1">>
        ELSE IF k \in BKinds THEN <<"rs1", "rs2", "offset">>
        ELSE IF k \in {"LUI", "AUIPC"} THEN <<"rd", "imm20">>
        ELSE IF k = "JAL" THEN <<"rd", "offset">> ELSE << >>
  BY <1>1 DEF Syntax
<1> QED  BY <1>2, KindsApart

LEMMA ShiftedNone == ShiftedLeft({}, 12) = {}
BY DEF ShiftedLeft

\* Reading the text of a word gives the operands that were decoded from it.
LEMMA TextRead ==
  ASSUME NEW w \in WordBits, Kind(w) \notin {"UNKNOWN", "FENCE"}
  PROVE  Reassemble(Disassemble(w)) = Operands(Decode(w))
<1> DEFINE k == Kind(w)
           v == Immediate(w)
           signed == SignedValue(v)
           shown == OperandsShown(w)
           syntax == Syntax(k)
           Operand(n, absent) == ReadBy(syntax, shown, n, absent)
           operands ==
             [kind |-> k,
              rd |-> IF k \in SKinds \cup BKinds \cup {"ECALL", "EBREAK"} THEN {} ELSE Rd(w),
              rs1 |-> IF k \in {"LUI", "AUIPC", "JAL", "ECALL", "EBREAK"} THEN {} ELSE Rs1(w),
              rs2 |-> IF k \in RKinds \cup SKinds \cup BKinds THEN Rs2(w) ELSE {},
              immediate |-> v]
<1>1. k \in DOMAIN Codes /\ Matches(w, k)  BY KindMatches
<1>2. Operands(Decode(w)) = operands  BY OperandsOf
<1>3. v \in WordBits
  <2>1. operands \in Assembly  BY <1>2, AcceptedEncodes
  <2>2. operands.immediate \in WordBits
    <3> HIDE DEF operands
    <3> QED  BY <2>1, AssemblyFields
  <2> QED  BY <2>2
<1>4. WordOf(signed) = v /\ WordOf(0) = {} /\ ShiftedLeft({}, 12) = {}
  BY <1>3, SignedValueRead, ZeroRead, ShiftedNone
<1>5. Reassemble(Disassemble(w))
        = [kind |-> k, rd |-> Operand("rd", {}), rs1 |-> Operand("rs1", {}),
           rs2 |-> Operand("rs2", {}),
           immediate |-> WordOf(Operand("imm", 0)) \cup WordOf(Operand("offset", 0))
                         \cup WordOf(Operand("shamt", 0))
                         \cup ShiftedLeft(Operand("imm20", {}), 12)]
  BY Reassembled DEF Disassemble, Instruction
<1>6. /\ k \in RKinds \cup {"ECALL", "EBREAK"} => v = {}
      /\ k \in {"LUI", "AUIPC"} => v = ImmediateU(w)
  BY <1>1, ImmediateOfKind
<1> DEFINE Same == /\ Operand("rd", {}) = operands.rd /\ Operand("rs1", {}) = operands.rs1
                   /\ Operand("rs2", {}) = operands.rs2
                   /\ WordOf(Operand("imm", 0)) \cup WordOf(Operand("offset", 0))
                      \cup WordOf(Operand("shamt", 0))
                      \cup ShiftedLeft(Operand("imm20", {}), 12) = v
<1>7. Same => Reassemble(Disassemble(w)) = Operands(Decode(w))  BY <1>2, <1>5
<1> DEFINE Reads(rd, rs1, rs2, imm, offset, shamt, imm20) ==
             /\ Operand("rd", {}) = rd /\ Operand("rs1", {}) = rs1 /\ Operand("rs2", {}) = rs2
             /\ Operand("imm", 0) = imm /\ Operand("offset", 0) = offset
             /\ Operand("shamt", 0) = shamt /\ Operand("imm20", {}) = imm20
<1>8. CASE k \in RKinds
  <2>1. shown = <<Rd(w), Rs1(w), Rs2(w)>> /\ syntax = <<"rd", "rs1", "rs2">>
    BY <1>1, <1>8, ShownOfKind, SyntaxOfKind
  <2>2. Reads(Rd(w), Rs1(w), Rs2(w), 0, 0, 0, {})
    <3> HIDE DEF shown, syntax
    <3> QED  BY <2>1, ReadAt DEF ReadBy
  <2> QED  BY <1>4, <1>6, <1>7, <1>8, <2>2, KindsApart
<1>9. CASE k \in ShiftKinds
  <2>1. shown = <<Rd(w), Rs1(w), signed>> /\ syntax = <<"rd", "rs1", "shamt">>
    BY <1>1, <1>9, ShownOfKind, SyntaxOfKind
  <2>2. Reads(Rd(w), Rs1(w), {}, 0, 0, signed, {})
    <3> HIDE DEF shown, syntax, signed
    <3> QED  BY <2>1, ReadAt DEF ReadBy
  <2> QED  BY <1>4, <1>7, <1>9, <2>2, KindsApart
<1>10. CASE k \in ArithmeticKinds
  <2>1. shown = <<Rd(w), Rs1(w), signed>> /\ syntax = <<"rd", "rs1", "imm">>
    BY <1>1, <1>10, ShownOfKind, SyntaxOfKind
  <2>2. Reads(Rd(w), Rs1(w), {}, signed, 0, 0, {})
    <3> HIDE DEF shown, syntax, signed
    <3> QED  BY <2>1, ReadAt DEF ReadBy
  <2> QED  BY <1>4, <1>7, <1>10, <2>2, KindsApart
<1>11. CASE k \in LoadKinds \cup {"JALR"}
  <2>1. shown = <<Rd(w), signed, Rs1(w)>> /\ syntax = <<"rd", "offset", "rs1">>
    BY <1>1, <1>11, ShownOfKind, SyntaxOfKind
  <2>2. Reads(Rd(w), Rs1(w), {}, 0, signed, 0, {})
    <3> HIDE DEF shown, syntax, signed
    <3> QED  BY <2>1, ReadAt DEF ReadBy
  <2> QED  BY <1>4, <1>7, <1>11, <2>2, KindsApart
<1>12. CASE k \in SKinds
  <2>1. shown = <<Rs2(w), signed, Rs1(w)>> /\ syntax = <<"rs2", "offset", "rs1">>
    BY <1>1, <1>12, ShownOfKind, SyntaxOfKind
  <2>2. Reads({}, Rs1(w), Rs2(w), 0, signed, 0, {})
    <3> HIDE DEF shown, syntax, signed
    <3> QED  BY <2>1, ReadAt DEF ReadBy
  <2> QED  BY <1>4, <1>7, <1>12, <2>2, KindsApart
<1>13. CASE k \in BKinds
  <2>1. shown = <<Rs1(w), Rs2(w), signed>> /\ syntax = <<"rs1", "rs2", "offset">>
    BY <1>1, <1>13, ShownOfKind, SyntaxOfKind
  <2>2. Reads({}, Rs1(w), Rs2(w), 0, signed, 0, {})
    <3> HIDE DEF shown, syntax, signed
    <3> QED  BY <2>1, ReadAt DEF ReadBy
  <2> QED  BY <1>4, <1>7, <1>13, <2>2, KindsApart
<1>14. CASE k \in {"LUI", "AUIPC"}
  <2>1. shown = <<Rd(w), ShiftedRight(v, 12)>> /\ syntax = <<"rd", "imm20">>
    BY <1>1, <1>14, ShownOfKind, SyntaxOfKind
  <2>2. Reads(Rd(w), {}, {}, 0, 0, 0, ShiftedRight(v, 12))
    <3> HIDE DEF shown, syntax, v
    <3> QED  BY <2>1, ReadAt DEF ReadBy
  <2>3. ShiftedLeft(ShiftedRight(v, 12), 12) = v
    <3>1. v = w \cap 12 .. 31  BY <1>6, <1>14 DEF ImmediateU
    <3> HIDE DEF v
    <3> QED  BY <3>1 DEF ShiftedLeft, ShiftedRight, Positions
  <2> QED  BY <1>4, <1>7, <1>14, <2>2, <2>3, KindsApart
<1>15. CASE k = "JAL"
  <2>1. shown = <<Rd(w), signed>> /\ syntax = <<"rd", "offset">>
    BY <1>1, <1>15, ShownOfKind, SyntaxOfKind
  <2>2. Reads(Rd(w), {}, {}, 0, signed, 0, {})
    <3> HIDE DEF shown, syntax, signed
    <3> QED  BY <2>1, ReadAt DEF ReadBy
  <2> QED  BY <1>4, <1>7, <1>15, <2>2, KindsApart
<1>16. CASE k \in {"ECALL", "EBREAK"}
  <2>1. shown = << >> /\ syntax = << >>
    BY <1>1, <1>16, ShownOfKind, SyntaxOfKind
  <2>2. Reads({}, {}, {}, 0, 0, 0, {})
    <3> HIDE DEF shown, syntax
    <3> QED  BY <2>1 DEF ReadBy
  <2> QED  BY <1>4, <1>6, <1>7, <1>16, <2>2, KindsApart
<1>17. k \in IKinds => k \in ArithmeticKinds \/ k \in LoadKinds \cup {"JALR"}  BY KindsApart
<1>18. \/ k \in RKinds \/ k \in ShiftKinds \/ k \in IKinds \/ k \in SKinds \/ k \in BKinds
       \/ k \in {"LUI", "AUIPC"} \/ k = "JAL" \/ k \in {"ECALL", "EBREAK"}
  BY <1>1, KindIsOne
<1> QED
  BY <1>8, <1>9, <1>10, <1>11, <1>12, <1>13, <1>14, <1>15, <1>16, <1>17, <1>18

\* The text of every legal word of 32 bits but FENCE, assembled by the syntax documented for
\* it, is that word (instruction_disassemble against its table instructions[]).
THEOREM TextIsReassembled == EncodingSpec => []TextReassembles
<1>1. sample \in Samples /\ word \in WordBits => TextReassembles
  BY TextRead, AcceptedEncodes DEF TextReassembles
<1> QED  BY <1>1, WordsStayWords, PTL
=============================================================================
