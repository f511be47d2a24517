--------------------------------- MODULE Cpu ---------------------------------
(***************************************************************************)
(* One attempt of cpu_step_recorded (src/cpu.c), stage by stage in the     *)
(* order of the code: fetch, decode, operands, execute, target check,      *)
(* memory access, register write, retirement.  The CPU and the RAM are     *)
(* updated where the code updates them, so a check made too late would     *)
(* leave a partial effect behind.  Decoding and the arithmetic of the ALU  *)
(* are parameters: Instruction and Alu model them bit by bit.              *)
(***************************************************************************)
EXTENDS MemoryAccess

CONSTANTS RegisterCount,      \* 32 in the code
          CountModulus,       \* 2^64 in the code
          RamSize,            \* the size of the guest RAM
          Decode(_),          \* instruction_decode
          AluResult(_, _, _), \* the value of an ALU kind, from two operands
          Setups,             \* the CPU and RAM contents callers start from
          WriteValues         \* what callers of cpu_write_register write

VARIABLES cpu,     \* struct Cpu
          memory,  \* the bytes of the RAM
          record,  \* struct CpuStepRecord of the attempt
          local,   \* the locals of execute(): value, next_pc, transfer
          stage,   \* where the attempt is
          entry    \* history: the CPU and the RAM when the attempt began

vars == <<cpu, memory, record, local, stage, entry>>

Registers == 0 .. RegisterCount - 1
InstructionSize == 4

RegisterAlu == {"ADD", "SUB", "SLL", "SLT", "SLTU", "XOR", "SRL", "SRA", "OR", "AND"}
ImmediateAlu == {"ADDI", "SLTI", "SLTIU", "XORI", "ORI", "ANDI", "SLLI", "SRLI", "SRAI"}
Branches == {"BEQ", "BNE", "BLT", "BGE", "BLTU", "BGEU"}
Loads == {"LB", "LH", "LW", "LBU", "LHU"}
Stores == {"SB", "SH", "SW"}
Kinds == RegisterAlu \cup ImmediateAlu \cup Branches \cup Loads \cup Stores
         \cup {"LUI", "AUIPC", "JAL", "JALR", "FENCE", "ECALL", "EBREAK", "UNKNOWN"}

Instructions == [kind : Kinds, rd : Registers, rs1 : Registers, rs2 : Registers,
                 immediate : Word]

\* The decoder masks register indices to the register file and yields a word.
ASSUME DecodeAssumption == \A w \in Word : Decode(w) \in Instructions
ASSUME AluAssumption ==
  /\ \A k \in RegisterAlu, x, y \in Word : AluResult(k, x, y) \in Word
  /\ \A w, x \in Word : LET d == Decode(w)
       IN d.kind \in ImmediateAlu => AluResult(d.kind, x, d.immediate) \in Word
ASSUME CpuAssumption ==
  /\ RegisterCount \in Nat \ {0} /\ CountModulus \in Nat \ {0}
  /\ RamSize \in Nat /\ SizeValid(RamSize) /\ WriteValues \subseteq Word

Modulus == Place(WordSize)
SignedLess(x, y) == (x + Modulus \div 2) % Modulus < (y + Modulus \div 2) % Modulus
\* The sum is not cut to 32 bits.
Add32Unwrapped(x, y) == x + y

Add32(x, y) == (x + y) % Modulus
\* x | 0xFFFFFF00 (or 0xFFFF0000) when the sign bit of the loaded part is set.
SignExtend(x, width) == IF x >= Place(width) \div 2 THEN x + Modulus - Place(width) ELSE x

ReadRegister(i) == IF i = 0 THEN 0 ELSE cpu.regs[i]
WrittenRegister(regs, i, v) == IF i = 0 THEN regs ELSE [regs EXCEPT ![i] = v]

instr == record.instruction
\* record.width of a kind that accesses memory, 0 of another.
Width(kind) == IF kind \in {"LB", "LBU", "SB"} THEN ByteSize
               ELSE IF kind \in {"LH", "LHU", "SH"} THEN HalfwordSize
               ELSE IF kind \in {"LW", "SW"} THEN WordSize ELSE 0
WritesRegister(kind) == kind \notin Branches \cup Stores \cup {"FENCE"}

NoInstruction == [kind |-> "UNKNOWN", rd |-> 0, rs1 |-> 0, rs2 |-> 0, immediate |-> 0]
NoWrite == [written |-> FALSE, index |-> 0, before |-> 0, after |-> 0, changed |-> FALSE]
NoAccess == [attempted |-> FALSE, completed |-> FALSE, write |-> FALSE, width |-> 0,
             address |-> 0, before |-> 0, after |-> 0]
NoTrap == [raised |-> FALSE, address |-> 0, value |-> 0]
Blank(c) == [result |-> "OK", pc_before |-> c.pc, pc_after |-> c.pc,
             count_before |-> c.count, count_after |-> c.count, fetched |-> FALSE,
             instruction |-> NoInstruction, rs1_value |-> 0, rs2_value |-> 0,
             branch_taken |-> FALSE, reg |-> NoWrite, memory |-> NoAccess, trap |-> NoTrap]

\* cpu_reset
ResetCpu == [regs |-> [i \in Registers |-> 0], pc |-> 0, count |-> 0, halted |-> FALSE]
NoLocals == [value |-> 0, next_pc |-> 0, transfer |-> FALSE]

At(s) == stage = s
Goto(s) == stage' = s
Between == stage \in {"idle", "returned"}

\* fault() and the return of its result.
Fault(result, value) ==
  /\ record' = [record EXCEPT !.result = result,
                  !.trap = [raised |-> TRUE, address |-> record.pc_before, value |-> value]]
  /\ Goto("return")
  /\ UNCHANGED <<cpu, memory, local, entry>>

\* A caller starts an attempt with a zeroed record.
Begin ==
  /\ Between
  /\ record' = Blank(cpu)
  /\ entry' = [cpu |-> cpu, memory |-> memory]
  /\ local' = NoLocals
  /\ Goto("fetch")
  /\ UNCHANGED <<cpu, memory>>

RefuseHalted ==
  /\ At("fetch") /\ cpu.halted
  /\ record' = [record EXCEPT !.result = "HALTED"]
  /\ Goto("return")
  /\ UNCHANGED <<cpu, memory, local, entry>>

FetchMisaligned ==
  /\ At("fetch") /\ ~cpu.halted
  /\ cpu.pc % InstructionSize # 0
  /\ Fault("MISALIGNED_PC", cpu.pc)

FetchFails ==
  /\ At("fetch") /\ ~cpu.halted
  /\ cpu.pc % InstructionSize = 0
  /\ ~AccessValid(RamSize, cpu.pc, WordSize)
  /\ Fault("FETCH_FAILED", cpu.pc)

Fetch ==
  /\ At("fetch") /\ ~cpu.halted
  /\ AccessValid(RamSize, cpu.pc, WordSize)
  /\ record' = [record EXCEPT !.fetched = TRUE,
                  !.instruction = Decode(ReadBytes(memory, cpu.pc, WordSize))]
  /\ Goto("decode")
  /\ UNCHANGED <<cpu, memory, local, entry>>

DecodeFails ==
  /\ At("decode") /\ instr.kind = "UNKNOWN"
  /\ Fault("UNKNOWN_INSTRUCTION", ReadBytes(memory, cpu.pc, WordSize))

ReadOperands ==
  /\ At("decode") /\ instr.kind # "UNKNOWN"
  /\ record' = [record EXCEPT !.rs1_value = ReadRegister(instr.rs1),
                              !.rs2_value = ReadRegister(instr.rs2)]
  /\ local' = [local EXCEPT !.next_pc = Add32(cpu.pc, InstructionSize)]
  /\ Goto("execute")
  /\ UNCHANGED <<cpu, memory, entry>>

\* The decision of a conditional branch.
Taken(kind, left, right) ==
  \/ kind = "BEQ" /\ left = right
  \/ kind = "BNE" /\ left # right
  \/ kind = "BLT" /\ SignedLess(left, right)
  \/ kind = "BGE" /\ ~SignedLess(left, right)
  \/ kind = "BLTU" /\ left < right
  \/ kind = "BGEU" /\ left >= right

\* The link value is the address after the jump, whatever its target.
Execute ==
  /\ At("execute") /\ instr.kind \notin {"ECALL", "EBREAK"}
  /\ local' =
       LET left == record.rs1_value
           right == record.rs2_value
           imm == instr.immediate
           kind == instr.kind
       IN [value |-> IF kind \in RegisterAlu THEN AluResult(kind, left, right)
                     ELSE IF kind \in ImmediateAlu THEN AluResult(kind, left, imm)
                     ELSE IF kind = "LUI" THEN imm
                     ELSE IF kind = "AUIPC" THEN Add32(cpu.pc, imm)
                     ELSE IF kind \in {"JAL", "JALR"} THEN local.next_pc ELSE 0,
           next_pc |-> IF kind = "JAL" \/ Taken(kind, left, right) THEN Add32(cpu.pc, imm)
                       ELSE IF kind = "JALR" THEN Add32(left, imm) - (Add32(left, imm) % 2)
                       ELSE local.next_pc,
           transfer |-> kind \in {"JAL", "JALR"} \/ Taken(kind, left, right)]
  /\ Goto("target")
  /\ UNCHANGED <<cpu, memory, record, entry>>

EnvironmentTrap ==
  /\ At("execute")
  /\ \/ instr.kind = "ECALL" /\ Fault("ECALL", 0)
     \/ instr.kind = "EBREAK" /\ Fault("BREAKPOINT", cpu.pc)

TargetMisaligned == local.transfer /\ local.next_pc % InstructionSize # 0

\* The link register is written before the target is checked.
RefuseTargetAfterLink ==
  /\ At("target") /\ TargetMisaligned
  /\ cpu' = [cpu EXCEPT !.regs = WrittenRegister(cpu.regs, instr.rd, local.value)]
  /\ record' = [record EXCEPT !.result = "MISALIGNED_PC",
       !.trap = [raised |-> TRUE, address |-> record.pc_before, value |-> local.next_pc]]
  /\ Goto("return")
  /\ UNCHANGED <<memory, local, entry>>

RefuseTarget ==
  /\ At("target") /\ TargetMisaligned
  /\ Fault("MISALIGNED_PC", local.next_pc)

\* The target of a jump is not checked.
AcceptAnyTarget ==
  /\ At("target")
  /\ record' = [record EXCEPT !.branch_taken = local.transfer]
  /\ Goto(IF Width(instr.kind) # 0 THEN "address" ELSE "write")
  /\ UNCHANGED <<cpu, memory, local, entry>>

AcceptTarget ==
  /\ At("target") /\ ~TargetMisaligned
  /\ record' = [record EXCEPT !.branch_taken = local.transfer]
  /\ Goto(IF Width(instr.kind) # 0 THEN "address" ELSE "write")
  /\ UNCHANGED <<cpu, memory, local, entry>>

Address ==
  /\ At("address")
  /\ record' = [record EXCEPT !.memory =
       [NoAccess EXCEPT !.attempted = TRUE, !.write = instr.kind \in Stores,
          !.width = Width(instr.kind), !.address = Add32(record.rs1_value, instr.immediate)]]
  /\ Goto("access")
  /\ UNCHANGED <<cpu, memory, local, entry>>

access == record.memory
AccessMisaligned == access.address % access.width # 0
AccessInRange == AccessValid(RamSize, access.address, access.width)

\* The range is checked before the alignment.
RefuseAccessByRange ==
  /\ At("access") /\ ~AccessInRange
  /\ Fault(IF access.write THEN "STORE_FAILED" ELSE "LOAD_FAILED", access.address)

\* Alignment is checked first; read_width checks the range, for a store too.
RefuseAccess ==
  /\ At("access")
  /\ \/ /\ AccessMisaligned
        /\ Fault(IF access.write THEN "STORE_MISALIGNED" ELSE "LOAD_MISALIGNED",
                 access.address)
     \/ /\ ~AccessMisaligned /\ ~AccessInRange
        /\ Fault(IF access.write THEN "STORE_FAILED" ELSE "LOAD_FAILED", access.address)

previous == ReadBytes(memory, access.address, access.width)
Completed(after) ==
  record' = [record EXCEPT !.memory.before = previous, !.memory.after = after,
                           !.memory.completed = TRUE]

Load ==
  /\ At("access") /\ ~access.write /\ AccessInRange
  /\ Completed(previous)
  /\ local' = [local EXCEPT !.value =
       IF instr.kind \in {"LB", "LH"} THEN SignExtend(previous, access.width) ELSE previous]
  /\ Goto("write")
  /\ UNCHANGED <<cpu, memory, entry>>

\* The whole register is recorded, not the part that is stored.
StoreUncast ==
  /\ At("access") /\ access.write /\ AccessInRange
  /\ Completed(record.rs2_value)
  /\ memory' = WriteBytes(memory, access.address, access.width, record.rs2_value)
  /\ local' = [local EXCEPT !.value = record.rs2_value]
  /\ Goto("write")
  /\ UNCHANGED <<cpu, entry>>

Store ==
  /\ At("access") /\ access.write /\ AccessInRange
  /\ LET value == record.rs2_value % Place(access.width)
     IN /\ Completed(value)
        /\ memory' = WriteBytes(memory, access.address, access.width, value)
        /\ local' = [local EXCEPT !.value = value]
  /\ Goto("write")
  /\ UNCHANGED <<cpu, entry>>

\* The write-back; rd = 0 is recorded as a write that changes nothing.
WriteBack ==
  /\ At("write")
  /\ IF WritesRegister(instr.kind)
       THEN LET before == ReadRegister(instr.rd)
                after == IF instr.rd = 0 THEN 0 ELSE local.value
            IN /\ record' = [record EXCEPT !.reg =
                    [written |-> TRUE, index |-> instr.rd, before |-> before,
                     after |-> after, changed |-> before # after]]
               /\ cpu' = [cpu EXCEPT !.regs = WrittenRegister(cpu.regs, instr.rd, local.value)]
       ELSE UNCHANGED <<cpu, record>>
  /\ Goto("retire")
  /\ UNCHANGED <<memory, local, entry>>

Retire ==
  /\ At("retire")
  /\ cpu' = [cpu EXCEPT !.pc = local.next_pc, !.count = (cpu.count + 1) % CountModulus]
  /\ Goto("return")
  /\ UNCHANGED <<memory, record, local, entry>>

\* cpu_step_recorded completes the record and hands it to its caller.
Return ==
  /\ At("return")
  /\ record' = [record EXCEPT !.pc_after = cpu.pc, !.count_after = cpu.count]
  /\ Goto("returned")
  /\ UNCHANGED <<cpu, memory, local, entry>>

\* Between attempts callers halt and resume the CPU, reset it, write registers.
CallerSets(c) ==
  /\ Between
  /\ cpu' = c
  /\ Goto("idle")
  /\ UNCHANGED <<memory, record, local, entry>>

Halt == CallerSets([cpu EXCEPT !.halted = TRUE])
Resume == CallerSets([cpu EXCEPT !.halted = FALSE])
Reset == CallerSets(ResetCpu)
CpuWriteRegister(i, v) ==
  CallerSets(IF i \in Registers THEN [cpu EXCEPT !.regs = WrittenRegister(cpu.regs, i, v)]
                                ELSE cpu)

Contract == INSTANCE CpuContract WITH
  Values <- Word, Pcs <- Word, Rams <- Arrays(RamSize)

ASSUME SetupAssumption ==
  \A s \in Setups : s.cpu \in Contract!CpuStates /\ s.cpu.regs[0] = 0
                    /\ s.memory \in Arrays(RamSize)

Init ==
  \E s \in Setups :
    /\ cpu = s.cpu /\ memory = s.memory
    /\ record = Blank(s.cpu)
    /\ local = NoLocals
    /\ stage = "idle"
    /\ entry = [cpu |-> s.cpu, memory |-> s.memory]

Faults == FetchMisaligned \/ FetchFails \/ DecodeFails \/ EnvironmentTrap \/ RefuseTarget
          \/ RefuseAccess
Proceeds == Fetch \/ ReadOperands \/ Execute \/ AcceptTarget \/ Address
            \/ Load \/ Store \/ WriteBack \/ Retire

Next ==
  \/ Begin \/ RefuseHalted \/ Faults \/ Proceeds \/ Return
  \/ Halt \/ Resume \/ Reset
  \/ \E i \in 0 .. RegisterCount, v \in WriteValues : CpuWriteRegister(i, v)

Spec == Init /\ [][Next]_vars
-----------------------------------------------------------------------------
Stages == {"idle", "fetch", "decode", "execute", "target", "address", "access",
           "write", "retire", "return", "returned"}

WriteType == [written : BOOLEAN, index : Registers, before : Word, after : Word,
              changed : BOOLEAN]
AccessType == [attempted : BOOLEAN, completed : BOOLEAN, write : BOOLEAN,
               width : Widths \cup {0}, address : Word, before : Word, after : Word]
TrapType == [raised : BOOLEAN, address : Word, value : Word]
RecordType ==
  [result : Contract!Results, pc_before : Word, pc_after : Word,
   count_before : 0 .. CountModulus - 1, count_after : 0 .. CountModulus - 1,
   fetched : BOOLEAN, instruction : Instructions, rs1_value : Word, rs2_value : Word,
   branch_taken : BOOLEAN, reg : WriteType, memory : AccessType, trap : TrapType]
LocalType == [value : Word, next_pc : Word, transfer : BOOLEAN]

\* Types of the structures of cpu.h: the counter and every word wrap at their
\* width, and a register index never leaves the register file.
TypeOK ==
  /\ cpu \in Contract!CpuStates
  /\ memory \in Arrays(RamSize)
  /\ entry \in [cpu : Contract!CpuStates, memory : Arrays(RamSize)]
  /\ stage \in Stages
  /\ local \in LocalType
  /\ record \in RecordType

\* Whatever the instruction and whichever check fails, an attempt retires or
\* leaves the CPU and the RAM as they were: in execute() no check follows the
\* first effect (docs/FLOWCHARTS.md, "No operation has a fallible action after
\* it modifies architectural state").
KeepsContract ==
  At("returned") => Contract!Attempt(entry.cpu, entry.memory, record.result, cpu, memory)

\* A retired instruction leaves an aligned program counter: cpu_step can only
\* report a misaligned fetch of an address that a caller put there.
JumpsStayAligned ==
  At("returned") /\ record.result = "OK" => cpu.pc % InstructionSize = 0

\* The record tells exactly what the attempt did: replayed on the state before
\* it, the register write and the completed store of the record give the state
\* after it, and "before" and "after" are what was there (the trace and the
\* monitor's register view are printed from the record alone).
RecordFaithful ==
  At("returned") =>
    /\ record.pc_before = entry.cpu.pc /\ record.pc_after = cpu.pc
    /\ record.count_before = entry.cpu.count /\ record.count_after = cpu.count
    /\ cpu.regs = IF record.reg.changed
                    THEN [entry.cpu.regs EXCEPT ![record.reg.index] = record.reg.after]
                    ELSE entry.cpu.regs
    /\ record.reg.written =>
         /\ record.reg.before = entry.cpu.regs[record.reg.index]
         /\ record.reg.after = cpu.regs[record.reg.index]
    /\ memory = IF access.completed /\ access.write
                  THEN WriteBytes(entry.memory, access.address, access.width, access.after)
                  ELSE entry.memory
    /\ access.completed =>
         /\ access.before = ReadBytes(entry.memory, access.address, access.width)
         /\ access.after = ReadBytes(memory, access.address, access.width)

\* A trap names its instruction and its cause: it is raised exactly when the
\* result is one, a misaligned access is reported as such even out of range,
\* and an access that trapped is never recorded as completed.
TrapExplains ==
  At("returned") =>
    /\ record.trap.raised <=> record.result \in Contract!Traps
    /\ record.trap.raised => record.trap.address = entry.cpu.pc
    /\ record.result \in {"LOAD_MISALIGNED", "STORE_MISALIGNED"} <=>
         access.attempted /\ AccessMisaligned
    /\ record.result \in {"LOAD_FAILED", "STORE_FAILED"} <=>
         access.attempted /\ ~AccessMisaligned /\ ~AccessInRange
    /\ access.attempted /\ record.trap.raised =>
         ~access.completed /\ record.trap.value = access.address

\* Both, of every attempt: what it did can be told from its record (cpu_step_recorded).
AttemptExplained == RecordFaithful /\ TrapExplains
=============================================================================
