------------------------------ MODULE CpuProofs ------------------------------
(* What every attempt of the CPU guarantees, for every decoder, every ALU, *)
(* every RAM size and number of registers.                                  *)
EXTENDS Cpu, MemoryAccessProofs

Working == {"decode", "execute", "target", "address", "access", "write", "retire"}
Ended == {"return", "returned"}

\* What the stages know of the instruction and of the access it makes.
Decoded ==
  /\ stage = "decode" => AccessValid(RamSize, cpu.pc, WordSize)
  /\ stage \in Working => \E w \in Word : instr = Decode(w)
  /\ stage = "address" => Width(instr.kind) # 0
  /\ stage = "access" => /\ access.width = Width(instr.kind) /\ access.width # 0
                         /\ access.write <=> instr.kind \in Stores

\* No check follows an effect: until the access the attempt has changed
\* nothing, a register is written last of all, and only then it retires.
AllOrNothing ==
  /\ stage \in {"fetch", "decode", "execute", "target", "address", "access"} =>
       cpu = entry.cpu /\ memory = entry.memory
  /\ stage = "write" => cpu = entry.cpu
  /\ stage = "retire" => /\ cpu.regs \in Contract!Written(entry.cpu.regs)
                         /\ cpu.count = entry.cpu.count /\ cpu.halted = entry.cpu.halted
  /\ stage \in Working => ~cpu.halted
  /\ stage \in Working \cup {"fetch"} => record.result = "OK"
  /\ stage \in Ended =>
       Contract!Attempt(entry.cpu, entry.memory, record.result, cpu, memory)

IInv == TypeOK /\ Decoded /\ AllOrNothing
-----------------------------------------------------------------------------
LEMMA Arithmetic ==
  /\ Modulus \in Nat /\ Modulus > 0 /\ Word = 0 .. Modulus - 1 /\ 0 \in Word
  /\ \A x, y \in Nat : Add32(x, y) \in Word
  /\ \A x \in Word : x \in Nat
<1>1. Modulus \in Nat /\ Modulus > 0 /\ Word = 0 .. Modulus - 1
  BY PlaceType DEF Modulus, Word, WordSize
<1> QED  BY <1>1 DEF Add32

LEMMA Constants ==
  /\ RegisterCount \in Nat /\ RegisterCount > 0 /\ 0 \in Registers /\ Registers \subseteq Nat
  /\ CountModulus \in Nat /\ CountModulus > 0 /\ 0 \in 0 .. CountModulus - 1
  /\ RamSize \in Nat /\ WriteValues \subseteq Word
  /\ InstructionSize = 4 /\ WordSize = 4
  BY CpuAssumption DEF Registers, InstructionSize, WordSize

LEMMA NothingType ==
  /\ NoInstruction \in Instructions /\ NoWrite \in WriteType /\ NoAccess \in AccessType
  /\ NoTrap \in TrapType /\ NoLocals \in LocalType
  /\ ResetCpu \in Contract!CpuStates
<1>1. NoInstruction \in Instructions
  BY Arithmetic, Constants DEF NoInstruction, Instructions, Kinds
<1>2. NoWrite \in WriteType
  BY Arithmetic, Constants DEF NoWrite, WriteType
<1>3. NoAccess \in AccessType
  BY Arithmetic DEF NoAccess, AccessType
<1>4. NoTrap \in TrapType /\ NoLocals \in LocalType
  BY Arithmetic DEF NoTrap, NoLocals, TrapType, LocalType
<1>5. ResetCpu \in Contract!CpuStates
  BY Arithmetic, Constants DEF ResetCpu, Contract!CpuStates
<1> QED  BY <1>1, <1>2, <1>3, <1>4, <1>5

LEMMA BlankType ==
  ASSUME NEW c \in Contract!CpuStates
  PROVE  Blank(c) \in RecordType /\ Blank(c).result = "OK"
<1>1. c.pc \in Word /\ c.count \in 0 .. CountModulus - 1
  BY DEF Contract!CpuStates
<1>2. "OK" \in Contract!Results
  BY DEF Contract!Results
<1> QED  BY <1>1, <1>2, NothingType, Arithmetic DEF Blank, RecordType

LEMMA WrittenRegisterType ==
  ASSUME NEW regs \in [Registers -> Word], NEW i \in Registers, NEW v \in Word
  PROVE  /\ WrittenRegister(regs, i, v) \in [Registers -> Word]
         /\ WrittenRegister(regs, i, v) \in Contract!Written(regs)
         /\ regs \in Contract!Written(regs)
  BY Constants DEF WrittenRegister, Contract!Written

LEMMA WidthType ==
  /\ \A kind : Width(kind) \in Widths \cup {0}
  /\ \A kind : Width(kind) # 0 => Width(kind) \in {1, 2, 4}
  BY DEF Width, Widths, ByteSize, HalfwordSize, WordSize

LEMMA FaultKeepsIInv ==
  ASSUME IInv, stage \in {"fetch", "decode", "execute", "target", "access"}, ~cpu.halted,
         NEW result \in Contract!Traps, NEW value \in Word, Fault(result, value)
  PROVE  IInv'
<1>1. record' \in RecordType
  <2>1. result \in Contract!Results /\ record.pc_before \in Word
    BY DEF IInv, TypeOK, RecordType, Contract!Results
  <2>2. [raised |-> TRUE, address |-> record.pc_before, value |-> value] \in TrapType
    BY <2>1 DEF TrapType
  <2> QED  BY <2>1, <2>2 DEF Fault, IInv, TypeOK, RecordType
<1>2. TypeOK'
  BY <1>1 DEF Fault, Goto, IInv, TypeOK, Stages
<1>3. record'.result = result /\ cpu = entry.cpu /\ memory = entry.memory
  BY DEF Fault, IInv, TypeOK, RecordType, AllOrNothing
<1>4. stage' = "return" /\ UNCHANGED <<cpu, memory, local, entry>>
  BY DEF Fault, Goto
<1>5. Contract!Attempt(entry.cpu, entry.memory, result, cpu, memory)
  BY <1>3 DEF Contract!Attempt
<1>6. AllOrNothing'
  BY <1>3, <1>4, <1>5 DEF AllOrNothing, Working, Ended, Contract!Attempt, Contract!Retires,
     Contract!Traps
<1>7. Decoded'
  BY <1>4 DEF Decoded, Working
<1> QED  BY <1>2, <1>6, <1>7 DEF IInv

LEMMA InitKeepsIInv == ASSUME Init PROVE IInv
<1>1. PICK s \in Setups :
        /\ cpu = s.cpu /\ memory = s.memory
        /\ record = Blank(s.cpu)
        /\ local = NoLocals
        /\ stage = "idle"
        /\ entry = [cpu |-> s.cpu, memory |-> s.memory]
  BY DEF Init
<1>2. s.cpu \in Contract!CpuStates /\ s.memory \in Arrays(RamSize)
  BY SetupAssumption
<1>3. TypeOK
  BY <1>1, <1>2, BlankType, NothingType DEF TypeOK, Stages
<1> QED  BY <1>1, <1>3 DEF IInv, Decoded, AllOrNothing, Working, Ended

LEMMA BeginKeepsIInv == ASSUME IInv, Begin PROVE IInv'
<1>1. record' = Blank(cpu) /\ record' \in RecordType /\ record'.result = "OK"
  BY BlankType DEF Begin, IInv, TypeOK
<1>2. TypeOK'
  BY <1>1, NothingType DEF Begin, Goto, IInv, TypeOK, Stages
<1> QED  BY <1>1, <1>2 DEF Begin, Goto, IInv, Decoded, AllOrNothing, Working, Ended

LEMMA RefuseHaltedKeepsIInv == ASSUME IInv, RefuseHalted PROVE IInv'
<1>1. record' = [record EXCEPT !.result = "HALTED"] /\ "HALTED" \in Contract!Results
  BY DEF RefuseHalted, Contract!Results
<1>2. record' \in RecordType /\ record'.result = "HALTED"
  BY <1>1 DEF IInv, TypeOK, RecordType
<1>3. TypeOK'
  BY <1>2 DEF RefuseHalted, Goto, IInv, TypeOK, Stages
<1>4. Contract!Attempt(entry.cpu, entry.memory, "HALTED", cpu, memory)
  BY DEF RefuseHalted, At, IInv, AllOrNothing, Contract!Attempt
<1> QED  BY <1>2, <1>3, <1>4 DEF RefuseHalted, Goto, IInv, Decoded, AllOrNothing, Working,
             Ended, Contract!Attempt, Contract!Retires, Contract!Traps

LEMMA FetchedWord ==
  ASSUME IInv, AccessValid(RamSize, cpu.pc, WordSize)
  PROVE  ReadBytes(memory, cpu.pc, WordSize) \in Word
<1>1. cpu.pc \in Nat /\ WordSize \in Widths
  BY Arithmetic DEF IInv, TypeOK, Contract!CpuStates, Widths
<1> QED  BY <1>1, Constants, ReadBytesType DEF IInv, TypeOK

LEMMA FetchKeepsIInv == ASSUME IInv, Fetch PROVE IInv'
<1> DEFINE w == ReadBytes(memory, cpu.pc, WordSize)
<1>1. w \in Word
  BY FetchedWord DEF Fetch
<1>2. Decode(w) \in Instructions
  BY <1>1, DecodeAssumption
<1>3. record' = [record EXCEPT !.fetched = TRUE, !.instruction = Decode(w)]
  BY DEF Fetch
<1> HIDE DEF w
<1>4. /\ record' \in RecordType /\ record'.instruction = Decode(w)
      /\ record'.result = record.result
  BY <1>2, <1>3 DEF IInv, TypeOK, RecordType
<1>5. TypeOK'
  BY <1>4 DEF Fetch, Goto, IInv, TypeOK, Stages
<1>6. Decoded'
  BY <1>1, <1>4 DEF Fetch, Goto, Decoded, Working, instr
<1>7. AllOrNothing'
  BY <1>4 DEF Fetch, Goto, At, IInv, AllOrNothing, Working, Ended
<1> QED  BY <1>5, <1>6, <1>7 DEF IInv

LEMMA RegistersRead == ASSUME IInv, NEW i \in Registers PROVE ReadRegister(i) \in Word
  BY Arithmetic DEF IInv, TypeOK, Contract!CpuStates, ReadRegister

LEMMA Instruction ==
  ASSUME IInv
  PROVE  /\ instr \in Instructions /\ instr.rd \in Registers /\ instr.immediate \in Word
         /\ instr.rs1 \in Registers /\ instr.rs2 \in Registers
  BY DEF IInv, TypeOK, RecordType, Instructions, instr

LEMMA ReadOperandsKeepsIInv == ASSUME IInv, ReadOperands PROVE IInv'
<1> DEFINE x == ReadRegister(instr.rs1)
           y == ReadRegister(instr.rs2)
<1>1. x \in Word /\ y \in Word
  BY Instruction, RegistersRead
<1>2. record' = [record EXCEPT !.rs1_value = x, !.rs2_value = y]
  BY DEF ReadOperands
<1> HIDE DEF x, y
<1>3. /\ record' \in RecordType /\ record'.result = record.result
      /\ record'.instruction = record.instruction
  BY <1>1, <1>2 DEF IInv, TypeOK, RecordType
<1>4. Add32(cpu.pc, InstructionSize) \in Word
  BY Arithmetic, Constants DEF IInv, TypeOK, Contract!CpuStates
<1>5. local' \in LocalType
  BY <1>4 DEF ReadOperands, IInv, TypeOK, LocalType
<1>6. TypeOK'
  BY <1>3, <1>5 DEF ReadOperands, Goto, IInv, TypeOK, Stages
<1>7. Decoded'
  BY <1>3 DEF ReadOperands, Goto, At, IInv, Decoded, Working, instr
<1>8. AllOrNothing'
  BY <1>3 DEF ReadOperands, Goto, At, IInv, AllOrNothing, Working, Ended
<1> QED  BY <1>6, <1>7, <1>8 DEF IInv

\* The value and the next program counter that execute() computes are words.
LEMMA ExecuteType == ASSUME IInv, Execute PROVE local' \in LocalType
<1> DEFINE left == record.rs1_value
           right == record.rs2_value
           imm == instr.immediate
           kind == instr.kind
           jalr == Add32(left, imm)
<1>1. left \in Word /\ right \in Word /\ imm \in Word /\ cpu.pc \in Word
      /\ local.next_pc \in Word
  BY Instruction DEF IInv, TypeOK, RecordType, LocalType, Contract!CpuStates
<1>2. kind \in RegisterAlu => AluResult(kind, left, right) \in Word
  BY <1>1, AluAssumption
<1>3. kind \in ImmediateAlu => AluResult(kind, left, imm) \in Word
  <2>1. PICK w \in Word : instr = Decode(w)
    BY DEF Execute, At, IInv, Decoded, Working
  <2> QED  BY <1>1, <2>1, AluAssumption
<1>4. Add32(cpu.pc, imm) \in Word /\ jalr \in Word
  BY <1>1, Arithmetic
<1>5. jalr - (jalr % 2) \in Word
  <2>1. \A x \in Nat : x - (x % 2) \in 0 .. x
    OBVIOUS
  <2> HIDE DEF jalr
  <2>2. jalr \in Nat /\ jalr <= Modulus - 1
    BY <1>4, Arithmetic
  <2>3. jalr - (jalr % 2) \in 0 .. jalr
    BY <2>1, <2>2
  <2> QED  BY <2>2, <2>3, Arithmetic
<1> DEFINE value == IF kind \in RegisterAlu THEN AluResult(kind, left, right)
                    ELSE IF kind \in ImmediateAlu THEN AluResult(kind, left, imm)
                    ELSE IF kind = "LUI" THEN imm
                    ELSE IF kind = "AUIPC" THEN Add32(cpu.pc, imm)
                    ELSE IF kind \in {"JAL", "JALR"} THEN local.next_pc ELSE 0
           next == IF kind = "JAL" \/ Taken(kind, left, right) THEN Add32(cpu.pc, imm)
                   ELSE IF kind = "JALR" THEN jalr - (jalr % 2) ELSE local.next_pc
           transfer == kind \in {"JAL", "JALR"} \/ Taken(kind, left, right)
<1>6. local' = [value |-> value, next_pc |-> next, transfer |-> transfer]
  BY DEF Execute
<1>7. value \in Word
  BY <1>1, <1>2, <1>3, <1>4, Arithmetic
<1>8. next \in Word
  BY <1>1, <1>4, <1>5
<1>9. transfer \in BOOLEAN
  BY DEF Taken
<1> QED  BY <1>6, <1>7, <1>8, <1>9 DEF LocalType

LEMMA ExecuteKeepsIInv == ASSUME IInv, Execute PROVE IInv'
<1>1. TypeOK'
  BY ExecuteType DEF Execute, Goto, IInv, TypeOK, Stages
<1>2. stage = "execute" /\ stage' = "target" /\ UNCHANGED <<cpu, memory, record, entry>>
  BY DEF Execute, At, Goto
<1> QED  BY <1>1, <1>2 DEF IInv, Decoded, AllOrNothing, Working, Ended, instr

LEMMA AcceptTargetKeepsIInv == ASSUME IInv, AcceptTarget PROVE IInv'
<1>1. record' = [record EXCEPT !.branch_taken = local.transfer]
      /\ UNCHANGED <<cpu, memory, local, entry>> /\ stage = "target"
  BY DEF AcceptTarget, At
<1>2. stage' = IF Width(instr.kind) # 0 THEN "address" ELSE "write"
  BY DEF AcceptTarget, Goto
<1>3. /\ record' \in RecordType /\ record'.result = record.result
      /\ record'.instruction = record.instruction
  BY <1>1 DEF IInv, TypeOK, RecordType, LocalType
<1>4. TypeOK'
  BY <1>1, <1>2, <1>3 DEF IInv, TypeOK, Stages
<1>5. Decoded'
  BY <1>1, <1>2, <1>3 DEF IInv, Decoded, Working, instr
<1>6. AllOrNothing'
  BY <1>1, <1>2, <1>3 DEF IInv, AllOrNothing, Working, Ended
<1> QED  BY <1>4, <1>5, <1>6 DEF IInv

LEMMA AddressKeepsIInv == ASSUME IInv, Address PROVE IInv'
<1> DEFINE a == [NoAccess EXCEPT !.attempted = TRUE, !.write = instr.kind \in Stores,
                   !.width = Width(instr.kind),
                   !.address = Add32(record.rs1_value, instr.immediate)]
<1>1. Add32(record.rs1_value, instr.immediate) \in Word
  BY Instruction, Arithmetic DEF IInv, TypeOK, RecordType
<1>2. /\ a \in AccessType /\ a.width = Width(instr.kind)
      /\ a.write <=> instr.kind \in Stores
  <2> DEFINE width == Width(instr.kind)
             write == instr.kind \in Stores
             address == Add32(record.rs1_value, instr.immediate)
  <2>1. width \in Widths \cup {0} /\ write \in BOOLEAN /\ address \in Word /\ 0 \in Word
    BY <1>1, WidthType, Arithmetic
  <2>2. a = [NoAccess EXCEPT !.attempted = TRUE, !.write = write, !.width = width,
                             !.address = address]
    OBVIOUS
  <2> HIDE DEF a, width, write, address
  <2>3. a \in AccessType /\ a.width = width /\ a.write = write
    BY <2>1, <2>2 DEF NoAccess, AccessType
  <2> QED  BY <2>3 DEF width, write
<1>3. record' = [record EXCEPT !.memory = a]
  BY DEF Address
<1> HIDE DEF a
<1>4. /\ record' \in RecordType /\ record'.result = record.result
      /\ record'.instruction = record.instruction /\ record'.memory = a
  BY <1>2, <1>3 DEF IInv, TypeOK, RecordType
<1>5. stage = "address" /\ stage' = "access" /\ UNCHANGED <<cpu, memory, local, entry>>
  BY DEF Address, At, Goto
<1>6. TypeOK'
  BY <1>4, <1>5 DEF IInv, TypeOK, Stages
<1>7. Decoded'
  <2>1. \E w \in Word : instr' = Decode(w)
    BY <1>4, <1>5 DEF IInv, Decoded, Working, instr
  <2>2. /\ access'.width = Width(instr'.kind) /\ access'.width # 0
        /\ access'.write <=> instr'.kind \in Stores
    BY <1>2, <1>4, <1>5 DEF IInv, Decoded, instr, access
  <2> QED  BY <1>5, <2>1, <2>2 DEF Decoded
<1>8. AllOrNothing'
  BY <1>4, <1>5 DEF IInv, AllOrNothing, Working, Ended
<1> QED  BY <1>6, <1>7, <1>8 DEF IInv

\* What an access in range reads, and what Completed makes of the record.
LEMMA Accessed ==
  ASSUME IInv, At("access"), AccessInRange
  PROVE  /\ access \in AccessType /\ access.address \in Nat /\ access.width \in Widths
         /\ previous \in Word /\ previous \in 0 .. Place(access.width) - 1
<1>1. access \in AccessType /\ access.width # 0
  BY DEF At, IInv, TypeOK, RecordType, Decoded, access
<1>2. access.address \in Nat /\ access.width \in Widths
  BY <1>1, Arithmetic DEF AccessType
<1>3. AccessValid(RamSize, access.address, access.width) /\ memory \in Arrays(RamSize)
  BY DEF AccessInRange, IInv, TypeOK
<1>4. previous \in Word
  BY <1>2, <1>3, Constants, ReadBytesType DEF previous
<1>5. previous \in 0 .. Place(access.width) - 1
  BY <1>2, <1>3, Constants, ReadIsLittleEndian DEF previous
<1> QED  BY <1>1, <1>2, <1>4, <1>5

LEMMA CompletedType ==
  ASSUME IInv, NEW after \in Word, previous \in Word, Completed(after)
  PROVE  /\ record' \in RecordType /\ record'.result = record.result
         /\ record'.instruction = record.instruction
<1> DEFINE a == [access EXCEPT !.before = previous, !.after = after, !.completed = TRUE]
<1>1. record' = [record EXCEPT !.memory = a]
  BY DEF Completed, access, IInv, TypeOK, RecordType
<1>2. a \in AccessType
  BY DEF IInv, TypeOK, RecordType, AccessType, access
<1> HIDE DEF a
<1> QED  BY <1>1, <1>2 DEF IInv, TypeOK, RecordType

LEMMA LoadKeepsIInv == ASSUME IInv, Load PROVE IInv'
<1> DEFINE v == IF instr.kind \in {"LB", "LH"} THEN SignExtend(previous, access.width)
                ELSE previous
<1>1. At("access") /\ AccessInRange /\ Completed(previous)
      /\ local' = [local EXCEPT !.value = v]
  BY DEF Load
<1>2. stage = "access" /\ stage' = "write" /\ UNCHANGED <<cpu, memory, entry>>
  BY DEF Load, At, Goto
<1>3. previous \in Word /\ previous \in 0 .. Place(access.width) - 1 /\ access.width \in Widths
  BY <1>1, Accessed
<1>4. SignExtend(previous, access.width) \in Word
  <2>1. Place(access.width) \in Nat /\ Place(access.width) > 0
        /\ Place(access.width) <= Modulus
    BY <1>3, PlaceType DEF Widths, ByteSize, HalfwordSize, WordSize, Modulus
  <2>2. \A P, M \in Nat : \A x \in 0 .. P - 1 : P <= M => x + M - P \in 0 .. M - 1
    OBVIOUS
  <2> HIDE DEF previous
  <2> QED  BY <1>3, <2>1, <2>2, Arithmetic DEF SignExtend
<1>5. v \in Word
  BY <1>3, <1>4
<1> HIDE DEF v
<1>6. local' \in LocalType
  BY <1>1, <1>5 DEF IInv, TypeOK, LocalType
<1>7. /\ record' \in RecordType /\ record'.result = record.result
      /\ record'.instruction = record.instruction
  BY <1>1, <1>3, CompletedType
<1>8. TypeOK'
  BY <1>2, <1>6, <1>7 DEF IInv, TypeOK, Stages
<1>9. Decoded' /\ AllOrNothing'
  BY <1>2, <1>7 DEF IInv, Decoded, AllOrNothing, Working, Ended, instr
<1> QED  BY <1>8, <1>9 DEF IInv

LEMMA StoreKeepsIInv == ASSUME IInv, Store PROVE IInv'
<1> DEFINE v == record.rs2_value % Place(access.width)
<1>1. At("access") /\ AccessInRange
  BY DEF Store
<1>2. /\ Completed(v) /\ memory' = WriteBytes(memory, access.address, access.width, v)
      /\ local' = [local EXCEPT !.value = v]
  BY DEF Store
<1>3. stage = "access" /\ stage' = "write" /\ UNCHANGED <<cpu, entry>>
  BY DEF Store, At, Goto
<1>4. /\ previous \in Word /\ access.width \in Widths /\ access.address \in Nat
  BY <1>1, Accessed
<1>5. v \in Word
  <2>1. Place(access.width) \in Nat /\ Place(access.width) > 0
        /\ Place(access.width) <= Modulus
    BY <1>4, PlaceType DEF Widths, ByteSize, HalfwordSize, WordSize, Modulus
  <2>2. record.rs2_value \in Nat
    BY Arithmetic DEF IInv, TypeOK, RecordType
  <2>3. \A P, x \in Nat : P > 0 => x % P \in 0 .. P - 1
    OBVIOUS
  <2>4. v \in 0 .. Place(access.width) - 1
    BY <2>1, <2>2, <2>3
  <2> HIDE DEF v
  <2> QED  BY <2>1, <2>4, Arithmetic
<1> HIDE DEF v
<1>6. memory' \in Arrays(RamSize)
  BY <1>2, <1>4, <1>5, Constants, WriteBytesType DEF IInv, TypeOK
<1>7. local' \in LocalType
  BY <1>2, <1>5 DEF IInv, TypeOK, LocalType
<1>8. /\ record' \in RecordType /\ record'.result = record.result
      /\ record'.instruction = record.instruction
  BY <1>2, <1>4, <1>5, CompletedType
<1>9. TypeOK'
  BY <1>3, <1>6, <1>7, <1>8 DEF IInv, TypeOK, Stages
<1>10. Decoded' /\ AllOrNothing'
  BY <1>3, <1>8 DEF IInv, Decoded, AllOrNothing, Working, Ended, instr
<1> QED  BY <1>9, <1>10 DEF IInv

LEMMA WriteBackKeepsIInv == ASSUME IInv, WriteBack PROVE IInv'
<1>1. stage = "write" /\ stage' = "retire" /\ UNCHANGED <<memory, local, entry>>
  BY DEF WriteBack, At, Goto
<1>2. /\ record' \in RecordType /\ record'.result = record.result
      /\ record'.instruction = record.instruction
  <2>1. CASE WritesRegister(instr.kind)
    <3> DEFINE before == ReadRegister(instr.rd)
               after == IF instr.rd = 0 THEN 0 ELSE local.value
               r == [written |-> TRUE, index |-> instr.rd, before |-> before,
                     after |-> after, changed |-> before # after]
    <3>1. record' = [record EXCEPT !.reg = r]
      BY <2>1 DEF WriteBack
    <3>2. before \in Word /\ after \in Word /\ instr.rd \in Registers
      BY Instruction, RegistersRead, Arithmetic DEF IInv, TypeOK, LocalType
    <3> HIDE DEF before, after
    <3>3. r \in WriteType
      BY <3>2 DEF WriteType
    <3> HIDE DEF r
    <3> QED  BY <3>1, <3>3 DEF IInv, TypeOK, RecordType
  <2>2. CASE ~WritesRegister(instr.kind)
    BY <2>2 DEF WriteBack, IInv, TypeOK
  <2> QED  BY <2>1, <2>2
<1>3. /\ cpu' \in Contract!CpuStates /\ cpu'.regs \in Contract!Written(cpu.regs)
      /\ cpu'.count = cpu.count /\ cpu'.halted = cpu.halted
  <2> DEFINE regs == WrittenRegister(cpu.regs, instr.rd, local.value)
  <2>1. cpu.regs \in [Registers -> Word] /\ local.value \in Word /\ instr.rd \in Registers
    BY Instruction DEF IInv, TypeOK, LocalType, Contract!CpuStates
  <2>2. /\ regs \in [Registers -> Word] /\ regs \in Contract!Written(cpu.regs)
        /\ cpu.regs \in Contract!Written(cpu.regs)
    BY <2>1, WrittenRegisterType
  <2>3. cpu' = [cpu EXCEPT !.regs = regs] \/ cpu' = cpu
    BY DEF WriteBack
  <2> HIDE DEF regs
  <2>4. CASE cpu' = [cpu EXCEPT !.regs = regs]
    BY <2>2, <2>4 DEF IInv, TypeOK, Contract!CpuStates
  <2>5. CASE cpu' = cpu
    BY <2>2, <2>5 DEF IInv, TypeOK
  <2> QED  BY <2>3, <2>4, <2>5
<1>4. TypeOK'
  BY <1>1, <1>2, <1>3 DEF IInv, TypeOK, Stages
<1>5. Decoded'
  BY <1>1, <1>2 DEF IInv, Decoded, Working, instr
<1>6. AllOrNothing'
  BY <1>1, <1>2, <1>3 DEF IInv, AllOrNothing, Working, Ended
<1> QED  BY <1>4, <1>5, <1>6 DEF IInv

LEMMA RetireKeepsIInv == ASSUME IInv, Retire PROVE IInv'
<1>1. stage = "retire" /\ stage' = "return" /\ UNCHANGED <<memory, record, local, entry>>
  BY DEF Retire, At, Goto
<1> DEFINE count == (cpu.count + 1) % CountModulus
<1>2. cpu' = [cpu EXCEPT !.pc = local.next_pc, !.count = count]
  BY DEF Retire
<1>3. local.next_pc \in Word
  BY DEF IInv, TypeOK, LocalType
<1>4. count \in 0 .. CountModulus - 1
  <2>1. cpu.count \in 0 .. CountModulus - 1
    BY DEF IInv, TypeOK, Contract!CpuStates
  <2> QED  BY <2>1, Constants
<1> HIDE DEF count
<1>5. /\ cpu' \in Contract!CpuStates /\ cpu'.regs = cpu.regs /\ cpu'.count = count
      /\ cpu'.halted = cpu.halted /\ cpu'.pc = local.next_pc
  BY <1>2, <1>3, <1>4 DEF IInv, TypeOK, Contract!CpuStates
<1>6. TypeOK'
  BY <1>1, <1>5 DEF IInv, TypeOK, Stages
<1>7. Contract!Retires(entry.cpu, entry.memory, cpu', memory')
  <2>1. /\ cpu.regs \in Contract!Written(entry.cpu.regs) /\ cpu.count = entry.cpu.count
        /\ cpu.halted = entry.cpu.halted /\ ~cpu.halted /\ memory \in Arrays(RamSize)
    BY <1>1 DEF IInv, TypeOK, AllOrNothing, Working
  <2>2. cpu'.count = (entry.cpu.count + 1) % CountModulus
    BY <2>1, <1>5 DEF count
  <2> QED  BY <1>1, <1>3, <1>5, <2>1, <2>2 DEF Contract!Retires
<1>8. record.result = "OK"
  BY <1>1 DEF IInv, AllOrNothing, Working
<1>9. AllOrNothing'
  <2>1. Contract!Attempt(entry.cpu, entry.memory, "OK", cpu', memory')
    BY <1>7 DEF Contract!Attempt
  <2>2. Contract!Attempt(entry.cpu, entry.memory, record.result, cpu, memory)'
    BY <1>1, <1>8, <2>1
  <2> QED  BY <1>1, <2>2 DEF AllOrNothing, Working, Ended
<1> QED  BY <1>1, <1>6, <1>9 DEF IInv, Decoded, Working

LEMMA ReturnKeepsIInv == ASSUME IInv, Return PROVE IInv'
<1>1. stage = "return" /\ stage' = "returned" /\ UNCHANGED <<cpu, memory, local, entry>>
  BY DEF Return, At, Goto
<1>2. cpu.pc \in Word /\ cpu.count \in 0 .. CountModulus - 1
  BY DEF IInv, TypeOK, Contract!CpuStates
<1>3. record' \in RecordType /\ record'.result = record.result
  BY <1>2 DEF Return, IInv, TypeOK, RecordType
<1>4. TypeOK'
  BY <1>1, <1>3 DEF IInv, TypeOK, Stages
<1>5. Contract!Attempt(entry.cpu, entry.memory, record.result, cpu, memory)'
  BY <1>1, <1>3 DEF IInv, AllOrNothing, Ended
<1> QED  BY <1>1, <1>4, <1>5 DEF IInv, Decoded, AllOrNothing, Working, Ended

LEMMA CallerSetsKeepsIInv ==
  ASSUME IInv, NEW c \in Contract!CpuStates, CallerSets(c)
  PROVE  IInv'
<1>1. TypeOK'
  BY DEF CallerSets, Goto, IInv, TypeOK, Stages
<1> QED  BY <1>1 DEF CallerSets, Goto, IInv, Decoded, AllOrNothing, Working, Ended

LEMMA FaultsKeepIInv == ASSUME IInv, Faults PROVE IInv'
<1>1. CASE FetchMisaligned
  <2>1. At("fetch") /\ ~cpu.halted /\ Fault("MISALIGNED_PC", cpu.pc)
    BY <1>1 DEF FetchMisaligned
  <2>2. cpu.pc \in Word
    BY DEF IInv, TypeOK, Contract!CpuStates
  <2> QED  BY <2>1, <2>2, FaultKeepsIInv DEF At, Contract!Traps
<1>2. CASE FetchFails
  <2>1. At("fetch") /\ ~cpu.halted /\ Fault("FETCH_FAILED", cpu.pc)
    BY <1>2 DEF FetchFails
  <2>2. cpu.pc \in Word
    BY DEF IInv, TypeOK, Contract!CpuStates
  <2> QED  BY <2>1, <2>2, FaultKeepsIInv DEF At, Contract!Traps
<1>3. CASE DecodeFails
  <2>1. stage = "decode" /\ Fault("UNKNOWN_INSTRUCTION", ReadBytes(memory, cpu.pc, WordSize))
    BY <1>3 DEF DecodeFails, At
  <2>2. AccessValid(RamSize, cpu.pc, WordSize) /\ ~cpu.halted
    BY <2>1 DEF IInv, Decoded, AllOrNothing, Working
  <2> QED  BY <2>1, <2>2, FetchedWord, FaultKeepsIInv DEF Contract!Traps
<1>4. CASE EnvironmentTrap
  <2>1. stage = "execute" /\ (Fault("ECALL", 0) \/ Fault("BREAKPOINT", cpu.pc))
    BY <1>4 DEF EnvironmentTrap, At
  <2>2. ~cpu.halted /\ cpu.pc \in Word
    BY <2>1 DEF IInv, TypeOK, AllOrNothing, Working, Contract!CpuStates
  <2> QED  BY <2>1, <2>2, Arithmetic, FaultKeepsIInv DEF Contract!Traps
<1>5. CASE RefuseTarget
  <2>1. stage = "target" /\ Fault("MISALIGNED_PC", local.next_pc)
    BY <1>5 DEF RefuseTarget, At
  <2>2. ~cpu.halted /\ local.next_pc \in Word
    BY <2>1 DEF IInv, TypeOK, AllOrNothing, Working, LocalType
  <2> QED  BY <2>1, <2>2, FaultKeepsIInv DEF Contract!Traps
<1>6. CASE RefuseAccess
  <2>1. stage = "access" /\ \E t \in Contract!Traps : Fault(t, access.address)
    BY <1>6 DEF RefuseAccess, At, Contract!Traps
  <2>2. ~cpu.halted /\ access.address \in Word
    BY <2>1 DEF IInv, TypeOK, AllOrNothing, Working, RecordType, AccessType, access
  <2> QED  BY <2>1, <2>2, FaultKeepsIInv
<1> QED  BY <1>1, <1>2, <1>3, <1>4, <1>5, <1>6 DEF Faults

LEMMA CallersKeepIInv ==
  ASSUME IInv, \/ Halt \/ Resume \/ Reset
               \/ \E i \in 0 .. RegisterCount, v \in WriteValues : CpuWriteRegister(i, v)
  PROVE  IInv'
<1>1. cpu \in Contract!CpuStates
  BY DEF IInv, TypeOK
<1>2. CASE Halt
  <2>1. [cpu EXCEPT !.halted = TRUE] \in Contract!CpuStates
    BY <1>1 DEF Contract!CpuStates
  <2> QED  BY <1>2, <2>1, CallerSetsKeepsIInv DEF Halt
<1>3. CASE Resume
  <2>1. [cpu EXCEPT !.halted = FALSE] \in Contract!CpuStates
    BY <1>1 DEF Contract!CpuStates
  <2> QED  BY <1>3, <2>1, CallerSetsKeepsIInv DEF Resume
<1>4. CASE Reset
  BY <1>4, NothingType, CallerSetsKeepsIInv DEF Reset
<1>5. ASSUME NEW i \in 0 .. RegisterCount, NEW v \in WriteValues, CpuWriteRegister(i, v)
      PROVE  IInv'
  <2> DEFINE regs == WrittenRegister(cpu.regs, i, v)
             c == IF i \in Registers THEN [cpu EXCEPT !.regs = regs] ELSE cpu
  <2>1. ASSUME i \in Registers PROVE [cpu EXCEPT !.regs = regs] \in Contract!CpuStates
    <3>1. cpu.regs \in [Registers -> Word] /\ v \in Word
      BY <1>1, Constants DEF Contract!CpuStates
    <3>2. regs \in [Registers -> Word]
      BY <2>1, <3>1, WrittenRegisterType
    <3> HIDE DEF regs
    <3> QED  BY <1>1, <3>2 DEF Contract!CpuStates
  <2>2. cpu \in Contract!CpuStates
    BY <1>1
  <2>3. c \in Contract!CpuStates
    <3> HIDE DEF regs
    <3> QED  BY <2>1, <2>2
  <2>4. CallerSets(c)
    BY <1>5 DEF CpuWriteRegister
  <2> QED  BY <2>3, <2>4, CallerSetsKeepsIInv
<1> QED  BY <1>2, <1>3, <1>4, <1>5

LEMMA NextKeepsIInv == ASSUME IInv, [Next]_vars PROVE IInv'
<1>1. CASE Begin \/ RefuseHalted \/ Faults
  BY <1>1, BeginKeepsIInv, RefuseHaltedKeepsIInv, FaultsKeepIInv
<1>2. CASE Fetch \/ ReadOperands \/ Execute \/ AcceptTarget \/ Address
  BY <1>2, FetchKeepsIInv, ReadOperandsKeepsIInv, ExecuteKeepsIInv, AcceptTargetKeepsIInv,
     AddressKeepsIInv
<1>3. CASE Load \/ Store \/ WriteBack \/ Retire \/ Return
  BY <1>3, LoadKeepsIInv, StoreKeepsIInv, WriteBackKeepsIInv, RetireKeepsIInv,
     ReturnKeepsIInv
<1>4. CASE \/ Halt \/ Resume \/ Reset
           \/ \E i \in 0 .. RegisterCount, v \in WriteValues : CpuWriteRegister(i, v)
  BY <1>4, CallersKeepIInv
<1>5. CASE UNCHANGED vars
  BY <1>5 DEF vars, IInv, TypeOK, Decoded, AllOrNothing, instr, access
<1> QED  BY <1>1, <1>2, <1>3, <1>4, <1>5 DEF Next, Proceeds
-----------------------------------------------------------------------------
\* The stages of execute() keep their invariant, whatever the program.
THEOREM CpuInvariant == Spec => []IInv
<1>1. Init => IInv
  BY InitKeepsIInv
<1>2. IInv /\ [Next]_vars => IInv'
  BY NextKeepsIInv
<1> QED  BY <1>1, <1>2, PTL DEF Spec

\* Every structure of cpu.h keeps its type: registers, addresses and loaded
\* values stay words, the counter wraps, and so does what the record copies.
THEOREM CpuTypes == Spec => []TypeOK
<1>1. IInv => TypeOK
  BY DEF IInv
<1> QED  BY <1>1, CpuInvariant, PTL

\* One call of cpu_step_recorded retires one instruction or leaves the CPU and
\* the RAM as they were: the contract the machine controller relies on.
THEOREM CpuKeepsContract == Spec => []KeepsContract
<1>1. IInv => KeepsContract
  BY DEF IInv, AllOrNothing, Ended, KeepsContract, At
<1> QED  BY <1>1, CpuInvariant, PTL
-----------------------------------------------------------------------------
\* Where the next program counter of the attempt is already known to be aligned.
Targets ==
  /\ stage = "execute" => local.next_pc % InstructionSize = 0
  /\ stage = "target" => local.transfer \/ local.next_pc % InstructionSize = 0
  /\ stage \in {"address", "access", "write", "retire"} =>
       local.next_pc % InstructionSize = 0
  /\ stage \in Ended /\ record.result = "OK" => cpu.pc % InstructionSize = 0

LEMMA ModulusAligned ==
  ASSUME ByteBase % 2 = 0
  PROVE  \E m \in Nat : Modulus = 4 * m
<1> DEFINE h == ByteBase \div 2
<1>1. h \in Nat /\ ByteBase = 2 * h
  BY ByteBaseAssumption
<1> HIDE DEF h
<1>2. ByteBase * ByteBase = 4 * (h * h) /\ h * h \in Nat
  BY <1>1
<1>3. \A q \in Nat : (4 * q) * ByteBase = 4 * (q * ByteBase) /\ q * ByteBase \in Nat
  BY ByteBaseAssumption
<1>4. Modulus = ByteBase * ByteBase * ByteBase * ByteBase
  BY DEF Modulus, Place, WordSize
<1>5. ByteBase * ByteBase * ByteBase = 4 * (h * h * ByteBase) /\ h * h * ByteBase \in Nat
  BY <1>2, <1>3
<1>6. Modulus = 4 * (h * h * ByteBase * ByteBase) /\ h * h * ByteBase * ByteBase \in Nat
  BY <1>3, <1>4, <1>5
<1> QED  BY <1>6

\* The program counter after an aligned one is aligned, also when it wraps.
LEMMA NextPcAligned ==
  ASSUME ByteBase % 2 = 0, NEW pc \in Word, pc % InstructionSize = 0
  PROVE  Add32(pc, InstructionSize) % InstructionSize = 0
<1>1. PICK m \in Nat : Modulus = 4 * m
  BY ModulusAligned
<1>2. pc \in 0 .. Modulus - 1 /\ Modulus > 0 /\ pc % 4 = 0
  BY Arithmetic, Constants
<1>3. pc \div 4 \in Nat /\ pc = 4 * (pc \div 4)
  BY <1>2
<1>4. pc + 4 < Modulus \/ pc + 4 = Modulus
  BY <1>1, <1>2, <1>3
<1>5. CASE pc + 4 < Modulus
  <2>1. Add32(pc, 4) = pc + 4
    BY <1>1, <1>2, <1>5 DEF Add32
  <2> QED  BY <1>3, <2>1, Constants
<1>6. CASE pc + 4 = Modulus
  <2>1. Add32(pc, 4) = 0
    BY <1>1, <1>2, <1>6 DEF Add32
  <2> QED  BY <2>1, Constants
<1> QED  BY <1>4, <1>5, <1>6

LEMMA FaultKeepsTargets ==
  ASSUME IInv, NEW result \in Contract!Traps, NEW value, Fault(result, value)
  PROVE  Targets'
<1>1. record'.result = result /\ stage' = "return"
  BY DEF Fault, Goto, IInv, TypeOK, RecordType
<1> QED  BY <1>1 DEF Targets, Ended, Contract!Traps

LEMMA FaultsKeepTargets == ASSUME IInv, Faults PROVE Targets'
<1>1. \E t \in Contract!Traps :
        \/ Fault(t, cpu.pc) \/ Fault(t, 0) \/ Fault(t, local.next_pc)
        \/ Fault(t, access.address) \/ Fault(t, ReadBytes(memory, cpu.pc, WordSize))
  BY DEF Faults, FetchMisaligned, FetchFails, DecodeFails, EnvironmentTrap, RefuseTarget,
     RefuseAccess, Contract!Traps
<1> QED  BY <1>1, FaultKeepsTargets

LEMMA NextKeepsTargets ==
  ASSUME ByteBase % 2 = 0, IInv, Targets, [Next]_vars
  PROVE  Targets'
<1>1. CASE Begin \/ Fetch
  BY <1>1 DEF Begin, Fetch, Goto, Targets, Ended
<1>2. CASE RefuseHalted
  <2>1. record'.result = "HALTED" /\ stage' = "return"
    BY <1>2 DEF RefuseHalted, Goto, IInv, TypeOK, RecordType
  <2> QED  BY <2>1 DEF Targets, Ended
<1>3. CASE Faults
  BY <1>3, FaultsKeepTargets
<1>4. CASE ReadOperands
  <2>1. cpu.pc \in Word /\ cpu.pc % InstructionSize = 0
    BY <1>4 DEF ReadOperands, At, IInv, TypeOK, Decoded, AccessValid, InstructionSize,
       WordSize, Contract!CpuStates
  <2>2. local'.next_pc = Add32(cpu.pc, InstructionSize) /\ stage' = "execute"
    BY <1>4 DEF ReadOperands, Goto, IInv, TypeOK, LocalType
  <2>3. local'.next_pc % InstructionSize = 0
    BY <2>1, <2>2, NextPcAligned
  <2> QED  BY <2>2, <2>3 DEF Targets, Ended
<1>5. CASE Execute
  <2> DEFINE taken == Taken(instr.kind, record.rs1_value, record.rs2_value)
  <2>1. local.next_pc % InstructionSize = 0 /\ stage' = "target"
    BY <1>5 DEF Execute, At, Goto, Targets
  <2>2. local'.transfer <=> (instr.kind \in {"JAL", "JALR"} \/ taken)
    BY <1>5 DEF Execute
  <2>3. ~(instr.kind \in {"JAL", "JALR"} \/ taken) => local'.next_pc = local.next_pc
    BY <1>5 DEF Execute
  <2>4. local'.transfer \/ local'.next_pc % InstructionSize = 0
    BY <2>1, <2>2, <2>3
  <2> QED  BY <2>1, <2>4 DEF Targets, Ended
<1>6. CASE AcceptTarget
  <2>1. /\ stage = "target" /\ ~(local.transfer /\ local.next_pc % InstructionSize # 0)
        /\ local' = local /\ stage' \in {"address", "write"}
    BY <1>6 DEF AcceptTarget, At, Goto, TargetMisaligned
  <2>2. local'.next_pc % InstructionSize = 0
    BY <2>1 DEF Targets
  <2> QED  BY <2>1, <2>2 DEF Targets, Ended
<1>7. CASE Address \/ WriteBack
  <2>1. /\ stage \in {"address", "write"} /\ local' = local /\ stage' \in {"access", "retire"}
    BY <1>7 DEF Address, WriteBack, At, Goto
  <2> QED  BY <2>1 DEF Targets, Ended
<1>8. CASE Load \/ Store
  <2>1. stage = "access" /\ stage' = "write" /\ local'.next_pc = local.next_pc
    BY <1>8 DEF Load, Store, At, Goto, IInv, TypeOK, LocalType
  <2> QED  BY <2>1 DEF Targets, Ended
<1>9. CASE Retire
  <2>1. stage = "retire" /\ stage' = "return" /\ cpu'.pc = local.next_pc
    BY <1>9 DEF Retire, At, Goto, IInv, TypeOK, Contract!CpuStates
  <2> QED  BY <2>1 DEF Targets, Ended
<1>10. CASE Return
  <2>1. stage = "return" /\ stage' = "returned" /\ cpu' = cpu /\ record'.result = record.result
    BY <1>10 DEF Return, At, Goto, IInv, TypeOK, RecordType
  <2> QED  BY <2>1 DEF Targets, Ended
<1>11. CASE \/ Halt \/ Resume \/ Reset
            \/ \E i \in 0 .. RegisterCount, v \in WriteValues : CpuWriteRegister(i, v)
  <2>1. stage' = "idle"
    BY <1>11 DEF Halt, Resume, Reset, CpuWriteRegister, CallerSets, Goto
  <2> QED  BY <2>1 DEF Targets, Ended
<1>12. CASE UNCHANGED vars
  BY <1>12 DEF vars, Targets
<1> QED  BY <1>1, <1>2, <1>3, <1>4, <1>5, <1>6, <1>7, <1>8, <1>9, <1>10, <1>11, <1>12
         DEF Next, Proceeds

\* When a byte has an even number of values, as every byte has, a retired
\* instruction leaves an aligned program counter: execute() checks the target
\* of a jump before it retires, and the pc after a fetched one is aligned.
THEOREM CpuStaysAligned == ByteBase % 2 = 0 => (Spec => []JumpsStayAligned)
<1> SUFFICES ASSUME ByteBase % 2 = 0 PROVE Spec => []JumpsStayAligned
  OBVIOUS
<1>1. Init => Targets
  BY DEF Init, Targets, Ended
<1>2. IInv /\ Targets /\ [Next]_vars => Targets'
  BY NextKeepsTargets
<1>3. Targets => JumpsStayAligned
  BY DEF Targets, Ended, JumpsStayAligned, At
<1> QED  BY <1>1, <1>2, <1>3, CpuInvariant, PTL DEF Spec
-----------------------------------------------------------------------------
(* What the record tells of the attempt, built up stage by stage. *)

\* What the record of an access tells of the RAM before and after it.
AccessTold(a, before, after) ==
  /\ after = IF a.completed /\ a.write THEN WriteBytes(before, a.address, a.width, a.after)
             ELSE before
  /\ a.completed => /\ a.before = ReadBytes(before, a.address, a.width)
                    /\ a.after = ReadBytes(after, a.address, a.width)
                    /\ a.attempted /\ AccessValid(RamSize, a.address, a.width)

\* What the record of a register write tells of the registers.
WriteTold(w, before, after) ==
  /\ after = IF w.changed THEN [before EXCEPT ![w.index] = w.after] ELSE before
  /\ w.written => w.before = before[w.index] /\ w.after = after[w.index]

\* The result and the access of a record account for its trap.
TrapTold(r) ==
  LET a == r.memory
      misaligned == a.address % a.width # 0
  IN /\ r.trap.raised <=> r.result \in Contract!Traps
     /\ r.trap.raised => r.trap.address = r.pc_before
     /\ r.result \in {"LOAD_MISALIGNED", "STORE_MISALIGNED"} <=> a.attempted /\ misaligned
     /\ r.result \in {"LOAD_FAILED", "STORE_FAILED"} <=>
          a.attempted /\ ~misaligned /\ ~AccessValid(RamSize, a.address, a.width)
     /\ a.attempted /\ r.trap.raised => ~a.completed /\ r.trap.value = a.address

\* Register 0 is zero, so that what the record says of it is true as well; an access
\* and a register write are told once they have happened, and not before.
Told ==
  /\ cpu.regs[0] = 0 /\ entry.cpu.regs[0] = 0
  /\ stage # "idle" =>
       /\ record.pc_before = entry.cpu.pc /\ record.count_before = entry.cpu.count
       /\ AccessTold(record.memory, entry.memory, memory)
       /\ WriteTold(record.reg, entry.cpu.regs, cpu.regs)
  /\ stage \in {"fetch", "decode", "execute", "target", "address"} => record.memory = NoAccess
  /\ stage = "access" => record.memory.attempted /\ ~record.memory.completed
  /\ stage \in {"write", "retire"} => (record.memory.attempted => record.memory.completed)
  /\ stage \in (Working \ {"retire"}) \cup {"fetch"} => record.reg = NoWrite
  /\ stage \in Working \cup {"fetch"} => ~record.trap.raised
  /\ stage \in Ended => TrapTold(record)
  /\ stage = "returned" => record.pc_after = cpu.pc /\ record.count_after = cpu.count

LEMMA NothingTold ==
  /\ \A m : AccessTold(NoAccess, m, m)
  /\ \A regs : WriteTold(NoWrite, regs, regs)
  /\ ~NoAccess.attempted /\ ~NoAccess.completed /\ ~NoTrap.raised
  BY DEF AccessTold, WriteTold, NoAccess, NoWrite, NoTrap

LEMMA BeginTells == ASSUME IInv, Told, Begin PROVE Told'
<1>1. /\ stage' = "fetch" /\ entry' = [cpu |-> cpu, memory |-> memory]
      /\ cpu' = cpu /\ memory' = memory /\ record' = Blank(cpu)
  BY DEF Begin, Goto
<1>2. /\ record'.pc_before = cpu.pc /\ record'.count_before = cpu.count
      /\ record'.memory = NoAccess /\ record'.reg = NoWrite /\ record'.trap = NoTrap
  BY <1>1 DEF Blank
<1> QED  BY <1>1, <1>2, NothingTold DEF Told, Working, Ended

\* The stages that neither touch the RAM nor a register leave the account as it is.
LEMMA QuietStage ==
  ASSUME Told, stage \in {"fetch", "decode", "execute", "target"},
         stage' \in {"decode", "execute", "target", "address", "write"},
         UNCHANGED <<cpu, memory, entry>>,
         record'.pc_before = record.pc_before, record'.count_before = record.count_before,
         record'.memory = record.memory, record'.reg = record.reg, record'.trap = record.trap
  PROVE  Told'
  BY NothingTold DEF Told, Working, Ended

LEMMA FirstStagesTell ==
  ASSUME IInv, Told, Fetch \/ ReadOperands \/ Execute \/ AcceptTarget
  PROVE  Told'
<1>1. record \in RecordType
  BY DEF IInv, TypeOK
<1>2. CASE Fetch
  BY <1>1, <1>2, QuietStage DEF Fetch, At, Goto, RecordType
<1>3. CASE ReadOperands
  BY <1>1, <1>3, QuietStage DEF ReadOperands, At, Goto, RecordType
<1>4. CASE Execute
  BY <1>4, QuietStage DEF Execute, At, Goto
<1>5. CASE AcceptTarget
  BY <1>1, <1>5, QuietStage DEF AcceptTarget, At, Goto, RecordType
<1> QED  BY <1>2, <1>3, <1>4, <1>5

\* Address announces the access: attempted, and not completed.
LEMMA AddressTells == ASSUME IInv, Told, Address PROVE Told'
<1> DEFINE a == [NoAccess EXCEPT !.attempted = TRUE, !.write = instr.kind \in Stores,
                   !.width = Width(instr.kind),
                   !.address = Add32(record.rs1_value, instr.immediate)]
<1>1. a.attempted /\ ~a.completed
  BY DEF NoAccess
<1>2. record' = [record EXCEPT !.memory = a]
  BY DEF Address
<1> HIDE DEF a
<1>3. /\ record'.memory = a /\ record'.reg = record.reg /\ record'.trap = record.trap
      /\ record'.pc_before = record.pc_before /\ record'.count_before = record.count_before
  BY <1>2 DEF IInv, TypeOK, RecordType
<1>4. stage = "address" /\ stage' = "access" /\ UNCHANGED <<cpu, memory, entry>>
  BY DEF Address, At, Goto
<1>5. AccessTold(a, entry.memory, memory)
  BY <1>1, <1>4, NothingTold DEF Told, AccessTold
<1> QED  BY <1>1, <1>3, <1>4, <1>5 DEF Told, Working, Ended
-----------------------------------------------------------------------------
LEMMA FaultRecord ==
  ASSUME IInv, NEW result, NEW value, Fault(result, value)
  PROVE  /\ stage' = "return" /\ UNCHANGED <<cpu, memory, entry>>
         /\ record'.pc_before = record.pc_before /\ record'.count_before = record.count_before
         /\ record'.memory = record.memory /\ record'.reg = record.reg
         /\ record'.result = result
         /\ record'.trap.raised /\ record'.trap.address = record'.pc_before
         /\ record'.trap.value = value
<1>1. /\ stage' = "return" /\ UNCHANGED <<cpu, memory, entry>>
      /\ record'.pc_before = record.pc_before /\ record'.count_before = record.count_before
      /\ record'.memory = record.memory /\ record'.reg = record.reg
      /\ record'.result = result
      /\ record'.trap = [raised |-> TRUE, address |-> record.pc_before, value |-> value]
  BY DEF Fault, Goto, IInv, TypeOK, RecordType
<1> QED  BY <1>1

\* The account of an attempt that ends here is complete when its trap is.
LEMMA EndTells ==
  ASSUME Told, stage # "idle", stage' = "return", UNCHANGED <<memory, entry>>,
         cpu'.regs = cpu.regs,
         record'.pc_before = record.pc_before, record'.count_before = record.count_before,
         record'.memory = record.memory, record'.reg = record.reg, TrapTold(record')
  PROVE  Told'
  BY DEF Told, Working, Ended

AccessTraps == {"LOAD_MISALIGNED", "STORE_MISALIGNED", "LOAD_FAILED", "STORE_FAILED"}

LEMMA EarlyFault ==
  ASSUME IInv, Told, stage \in {"fetch", "decode", "execute", "target"},
         NEW result \in Contract!Traps \ AccessTraps, NEW value, Fault(result, value)
  PROVE  Told'
<1>1. record'.memory = NoAccess
  BY FaultRecord DEF Told
<1>2. /\ ~record'.memory.attempted /\ record'.trap.raised
      /\ record'.trap.address = record'.pc_before
      /\ record'.result = result
  BY <1>1, FaultRecord, NothingTold
<1>3. TrapTold(record')
  BY <1>2 DEF TrapTold, AccessTraps
<1> QED  BY <1>3, FaultRecord, EndTells

LEMMA RefuseAccessTells == ASSUME IInv, Told, RefuseAccess PROVE Told'
<1> DEFINE a == record.memory
           misaligned == a.address % a.width # 0
           valid == AccessValid(RamSize, a.address, a.width)
<1>1. stage = "access" /\ a.attempted /\ ~a.completed
  BY DEF RefuseAccess, At, Told
<1>2. \E result \in AccessTraps :
        /\ Fault(result, a.address)
        /\ result \in {"LOAD_MISALIGNED", "STORE_MISALIGNED"} <=> misaligned
        /\ result \in {"LOAD_FAILED", "STORE_FAILED"} <=> ~misaligned /\ ~valid
  <2>1. CASE AccessMisaligned /\ Fault(IF access.write THEN "STORE_MISALIGNED"
                                       ELSE "LOAD_MISALIGNED", access.address)
    BY <2>1 DEF AccessMisaligned, access, AccessTraps
  <2>2. CASE ~AccessMisaligned /\ ~AccessInRange
             /\ Fault(IF access.write THEN "STORE_FAILED" ELSE "LOAD_FAILED", access.address)
    BY <2>2 DEF AccessMisaligned, AccessInRange, access, AccessTraps
  <2> QED  BY <2>1, <2>2 DEF RefuseAccess
<1>3. PICK result \in AccessTraps :
        /\ Fault(result, a.address)
        /\ result \in {"LOAD_MISALIGNED", "STORE_MISALIGNED"} <=> misaligned
        /\ result \in {"LOAD_FAILED", "STORE_FAILED"} <=> ~misaligned /\ ~valid
  BY <1>2
<1>4. result \in Contract!Traps
  BY DEF AccessTraps, Contract!Traps
<1>5. /\ record'.memory = a /\ record'.result = result
      /\ record'.trap.raised /\ record'.trap.address = record'.pc_before
      /\ record'.trap.value = a.address
  BY <1>3, FaultRecord
<1>6. TrapTold(record')
  BY <1>1, <1>3, <1>4, <1>5 DEF TrapTold
<1> QED  BY <1>1, <1>3, <1>6, FaultRecord, EndTells

LEMMA FaultsTell == ASSUME IInv, Told, Faults PROVE Told'
<1>1. CASE FetchMisaligned
  BY <1>1, EarlyFault DEF FetchMisaligned, At, Contract!Traps, AccessTraps
<1>2. CASE FetchFails
  BY <1>2, EarlyFault DEF FetchFails, At, Contract!Traps, AccessTraps
<1>3. CASE DecodeFails
  BY <1>3, EarlyFault DEF DecodeFails, At, Contract!Traps, AccessTraps
<1>4. CASE EnvironmentTrap
  BY <1>4, EarlyFault DEF EnvironmentTrap, At, Contract!Traps, AccessTraps
<1>5. CASE RefuseTarget
  BY <1>5, EarlyFault DEF RefuseTarget, At, Contract!Traps, AccessTraps
<1>6. CASE RefuseAccess
  BY <1>6, RefuseAccessTells
<1> QED  BY <1>1, <1>2, <1>3, <1>4, <1>5, <1>6 DEF Faults

LEMMA RefuseHaltedTells == ASSUME IInv, Told, RefuseHalted PROVE Told'
<1>1. /\ stage = "fetch" /\ stage' = "return" /\ UNCHANGED <<cpu, memory, entry>>
      /\ record' = [record EXCEPT !.result = "HALTED"]
  BY DEF RefuseHalted, At, Goto
<1>2. /\ record'.pc_before = record.pc_before /\ record'.count_before = record.count_before
      /\ record'.memory = record.memory /\ record'.reg = record.reg
      /\ record'.trap = record.trap /\ record'.result = "HALTED"
  BY <1>1 DEF IInv, TypeOK, RecordType
<1>3. record.memory = NoAccess /\ ~record.trap.raised
  BY <1>1 DEF Told
<1>4. TrapTold(record')
  BY <1>2, <1>3, NothingTold DEF TrapTold, Contract!Traps
<1> QED  BY <1>1, <1>2, <1>4, EndTells
-----------------------------------------------------------------------------
\* A completed access, told from the RAM before it and after it.
LEMMA CompletedTells ==
  ASSUME IInv, Told, stage = "access", stage' = "write", UNCHANGED <<cpu, entry>>,
         NEW after, Completed(after), AccessInRange,
         memory' = IF access.write
                     THEN WriteBytes(memory, access.address, access.width, after) ELSE memory,
         after = ReadBytes(memory', access.address, access.width)
  PROVE  Told'
<1> DEFINE a == [access EXCEPT !.before = previous, !.after = after, !.completed = TRUE]
<1>1. access \in AccessType /\ memory = entry.memory
  BY DEF IInv, TypeOK, RecordType, AllOrNothing, access
<1>2. record' = [record EXCEPT !.memory = a]
  BY DEF Completed, access, IInv, TypeOK, RecordType
<1>3. /\ a.before = previous /\ a.after = after /\ a.completed
      /\ a.attempted = access.attempted /\ a.write = access.write
      /\ a.address = access.address /\ a.width = access.width
  BY <1>1 DEF AccessType
<1> HIDE DEF a
<1>4. /\ record'.memory = a /\ record'.reg = record.reg /\ record'.trap = record.trap
      /\ record'.pc_before = record.pc_before /\ record'.count_before = record.count_before
  BY <1>2 DEF IInv, TypeOK, RecordType
<1>5. access.attempted
  BY DEF Told, access
<1>6. AccessTold(a, entry.memory, memory')
  BY <1>1, <1>3, <1>5 DEF AccessTold, previous, AccessInRange
<1> QED  BY <1>3, <1>4, <1>6 DEF Told, Working, Ended

LEMMA LoadTells == ASSUME IInv, Told, Load PROVE Told'
<1>1. /\ stage = "access" /\ stage' = "write" /\ UNCHANGED <<cpu, memory, entry>>
      /\ ~access.write /\ AccessInRange /\ Completed(previous)
  BY DEF Load, At, Goto
<1> QED  BY <1>1, CompletedTells DEF previous

LEMMA StoreTells == ASSUME IInv, Told, Store PROVE Told'
<1> DEFINE v == record.rs2_value % Place(access.width)
<1>1. /\ stage = "access" /\ stage' = "write" /\ UNCHANGED <<cpu, entry>>
      /\ access.write /\ AccessInRange /\ Completed(v)
      /\ memory' = WriteBytes(memory, access.address, access.width, v)
  BY DEF Store, At, Goto
<1>2. access.address \in Nat /\ access.width \in Widths
  BY <1>1, Accessed DEF At
<1>3. v \in Nat /\ v % Place(access.width) = v
  <2>1. Place(access.width) \in Nat /\ Place(access.width) > 0
    BY <1>2, PlaceType DEF Widths, ByteSize, HalfwordSize, WordSize
  <2>2. record.rs2_value \in Nat
    BY Arithmetic DEF IInv, TypeOK, RecordType
  <2>3. \A P, x \in Nat : P > 0 => x % P \in Nat /\ (x % P) % P = x % P
    OBVIOUS
  <2> QED  BY <2>1, <2>2, <2>3
<1> HIDE DEF v
<1>4. ReadBytes(memory', access.address, access.width) = v
  <2>1. memory \in Arrays(RamSize) /\ AccessValid(RamSize, access.address, access.width)
    BY <1>1 DEF IInv, TypeOK, AccessInRange
  <2> QED  BY <1>1, <1>2, <1>3, <2>1, Constants, WriteThenRead
<1> QED  BY <1>1, <1>4, CompletedTells

\* The write-back, told from the registers before it and after it.
LEMMA WriteBackTells == ASSUME IInv, Told, WriteBack PROVE Told'
<1>1. stage = "write" /\ stage' = "retire" /\ UNCHANGED <<memory, local, entry>>
  BY DEF WriteBack, At, Goto
<1>2. /\ cpu = entry.cpu /\ record.reg = NoWrite /\ cpu.regs \in [Registers -> Word]
      /\ cpu.regs[0] = 0 /\ instr.rd \in Registers /\ local.value \in Word
  <2>1. /\ cpu \in Contract!CpuStates /\ local \in LocalType
    BY DEF IInv, TypeOK
  <2>2. cpu = entry.cpu /\ record.reg = NoWrite /\ cpu.regs[0] = 0
    BY <1>1 DEF IInv, AllOrNothing, Told, Working
  <2> QED  BY <2>1, <2>2, Instruction DEF LocalType, Contract!CpuStates
<1>3. CASE ~WritesRegister(instr.kind)
  <2>1. cpu' = cpu /\ record' = record
    BY <1>3 DEF WriteBack
  <2> QED  BY <1>1, <2>1 DEF Told, Working, Ended
<1>4. CASE WritesRegister(instr.kind)
  <2> DEFINE rd == instr.rd
             regs == WrittenRegister(cpu.regs, rd, local.value)
             before == ReadRegister(rd)
             after == IF rd = 0 THEN 0 ELSE local.value
             w == [written |-> TRUE, index |-> rd, before |-> before,
                   after |-> after, changed |-> before # after]
  <2>1. record' = [record EXCEPT !.reg = w] /\ cpu' = [cpu EXCEPT !.regs = regs]
    BY <1>4 DEF WriteBack
  <2>2. before = cpu.regs[rd]
    BY <1>2 DEF ReadRegister
  <2>3. regs = [cpu.regs EXCEPT ![rd] = after]
    BY <1>2 DEF WrittenRegister
  <2>4. regs[rd] = after /\ (before = after => regs = cpu.regs)
    BY <1>2, <2>2, <2>3
  <2>5. regs[0] = 0
    BY <1>2, Constants DEF WrittenRegister
  <2>6. /\ w.written /\ w.index = rd /\ w.before = before /\ w.after = after
        /\ w.changed <=> before # after
    OBVIOUS
  <2> HIDE DEF regs, before, after, w
  <2>7. WriteTold(w, cpu.regs, regs)
    BY <2>2, <2>3, <2>4, <2>6 DEF WriteTold
  <2>8. cpu'.regs = regs
    BY <2>1 DEF IInv, TypeOK, Contract!CpuStates
  <2>9. /\ record'.reg = w /\ record'.memory = record.memory /\ record'.trap = record.trap
        /\ record'.pc_before = record.pc_before /\ record'.count_before = record.count_before
    BY <2>1 DEF IInv, TypeOK, RecordType
  <2> QED  BY <1>1, <1>2, <2>5, <2>7, <2>8, <2>9 DEF Told, Working, Ended
<1> QED  BY <1>3, <1>4

LEMMA RetireTells == ASSUME IInv, Told, Retire PROVE Told'
<1>1. stage = "retire" /\ stage' = "return" /\ UNCHANGED <<memory, record, entry>>
  BY DEF Retire, At, Goto
<1>2. cpu'.regs = cpu.regs
  BY DEF Retire, IInv, TypeOK, Contract!CpuStates
<1>3. record.result = "OK" /\ ~record.trap.raised
  BY <1>1 DEF IInv, AllOrNothing, Told, Working
<1>4. /\ AccessTold(record.memory, entry.memory, memory)
      /\ record.memory.attempted => record.memory.completed
  BY <1>1 DEF Told
<1>5. record.memory.attempted => /\ record.memory.address % record.memory.width = 0
                                 /\ AccessValid(RamSize, record.memory.address,
                                                record.memory.width)
  BY <1>4 DEF AccessTold, AccessValid
<1>6. TrapTold(record)
  BY <1>3, <1>5 DEF TrapTold, Contract!Traps
<1> QED  BY <1>1, <1>2, <1>6, EndTells

LEMMA ReturnTells == ASSUME IInv, Told, Return PROVE Told'
<1>1. stage = "return" /\ stage' = "returned" /\ UNCHANGED <<cpu, memory, entry>>
  BY DEF Return, At, Goto
<1>2. /\ record'.pc_before = record.pc_before /\ record'.count_before = record.count_before
      /\ record'.memory = record.memory /\ record'.reg = record.reg
      /\ record'.trap = record.trap /\ record'.result = record.result
      /\ record'.pc_after = cpu.pc /\ record'.count_after = cpu.count
  BY DEF Return, IInv, TypeOK, RecordType
<1>3. TrapTold(record')
  BY <1>1, <1>2 DEF Told, Ended, TrapTold
<1> QED  BY <1>1, <1>2, <1>3 DEF Told, Working, Ended

\* No caller writes register 0.
LEMMA CallersTell ==
  ASSUME IInv, Told, \/ Halt \/ Resume \/ Reset
                     \/ \E i \in 0 .. RegisterCount, v \in WriteValues : CpuWriteRegister(i, v)
  PROVE  Told'
<1>1. stage' = "idle" /\ entry' = entry
  BY DEF Halt, Resume, Reset, CpuWriteRegister, CallerSets, Goto
<1>2. cpu.regs \in [Registers -> Word] /\ cpu.regs[0] = 0 /\ entry.cpu.regs[0] = 0
  BY DEF IInv, TypeOK, Contract!CpuStates, Told
<1>3. CASE Halt \/ Resume
  <2>1. cpu'.regs = cpu.regs
    BY <1>3 DEF Halt, Resume, CallerSets, IInv, TypeOK, Contract!CpuStates
  <2> QED  BY <1>1, <1>2, <2>1 DEF Told, Working, Ended
<1>4. CASE Reset
  <2>1. cpu'.regs[0] = 0
    BY <1>4, Constants DEF Reset, CallerSets, ResetCpu
  <2> QED  BY <1>1, <1>2, <2>1 DEF Told, Working, Ended
<1>5. ASSUME NEW i \in 0 .. RegisterCount, NEW v \in WriteValues, CpuWriteRegister(i, v)
      PROVE  Told'
  <2>1. WrittenRegister(cpu.regs, i, v)[0] = 0
    BY <1>2, Constants DEF WrittenRegister
  <2>2. cpu'.regs \in {cpu.regs, WrittenRegister(cpu.regs, i, v)}
    BY <1>5 DEF CpuWriteRegister, CallerSets, IInv, TypeOK, Contract!CpuStates
  <2> QED  BY <1>1, <1>2, <2>1, <2>2 DEF Told, Working, Ended
<1> QED  BY <1>3, <1>4, <1>5

LEMMA InitTells == ASSUME Init PROVE Told
<1>1. PICK s \in Setups : /\ cpu = s.cpu /\ entry = [cpu |-> s.cpu, memory |-> s.memory]
                          /\ stage = "idle"
  BY DEF Init
<1>2. s.cpu.regs[0] = 0
  BY SetupAssumption
<1> QED  BY <1>1, <1>2 DEF Told, Working, Ended

LEMMA NextTells == ASSUME IInv, Told, [Next]_vars PROVE Told'
<1>1. CASE Begin \/ RefuseHalted \/ Faults \/ Return
  BY <1>1, BeginTells, RefuseHaltedTells, FaultsTell, ReturnTells
<1>2. CASE Proceeds
  BY <1>2, FirstStagesTell, AddressTells, LoadTells, StoreTells, WriteBackTells, RetireTells
  DEF Proceeds
<1>3. CASE \/ Halt \/ Resume \/ Reset
           \/ \E i \in 0 .. RegisterCount, v \in WriteValues : CpuWriteRegister(i, v)
  BY <1>3, CallersTell
<1>4. CASE UNCHANGED vars
  BY <1>4 DEF vars, Told
<1> QED  BY <1>1, <1>2, <1>3, <1>4 DEF Next

\* The record of cpu_step_recorded tells what the attempt did and why it trapped,
\* for every instruction, RAM and register file.
THEOREM CpuAttemptExplained == Spec => []AttemptExplained
<1>1. Init => Told
  BY InitTells
<1>2. IInv /\ Told /\ [Next]_vars => Told'
  BY NextTells
<1>3. ASSUME Told PROVE AttemptExplained
  <2>1. RecordFaithful
    BY <1>3 DEF Told, RecordFaithful, At, AccessTold, WriteTold, access
  <2>2. TrapExplains
    BY <1>3 DEF Told, TrapExplains, At, Ended, TrapTold, access, AccessMisaligned, AccessInRange
  <2> QED  BY <2>1, <2>2 DEF AttemptExplained
<1> QED  BY <1>1, <1>2, <1>3, CpuInvariant, PTL DEF Spec
=============================================================================
